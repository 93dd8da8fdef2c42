--------------------------- MODULE ContestsProofs ---------------------------
(***************************************************************************)
(* Proofs about Contests, for every set of users, any number of requests   *)
(* in progress at the same time and any number of entries.                 *)
(***************************************************************************)
EXTENDS Contests, FiniteSetTheorems, SequenceTheorems, WellFoundedInduction, TLAPS

(***************************************************************************)
(* What a request in progress was asked exists.                            *)
(***************************************************************************)
Asked ==
    \A q \in Requests :
        /\ request[q].does \in {"submit", "vote", "select"} => request[q].user \in Users
        /\ request[q].does \in {"approve", "reject", "vote", "select"} => request[q].entry \in DOMAIN entries

\* An entry that was approved once has been reviewed.
Reviewed == \A s \in DOMAIN entries : entries[s].approved => entries[s].status # "pending"

(***************************************************************************)
(* Entries are never deleted, keep their author, and once reviewed are     *)
(* never pending again.                                                    *)
(***************************************************************************)
EntriesStay ==
    /\ entries' \in Seq(Entry)
    /\ Len(entries') <= MaxEntries
    /\ \A s \in DOMAIN entries :
          /\ s \in DOMAIN entries'
          /\ entries'[s].author = entries[s].author
          /\ entries[s].status # "pending" => entries'[s].status # "pending"
    /\ Reviewed => Reviewed'

(***************************************************************************)
(* Only a submission and a review write the table of entries.              *)
(***************************************************************************)
LEMMA EntryWriters ==
    ASSUME [Next]_vars,
           \A q \in Requests : ~ SubmitWrite(q) /\ ~ ReviewWrite(q)
    PROVE  UNCHANGED entries
<1>1. CASE UNCHANGED vars
  BY <1>1 DEF vars
<1>3. ASSUME NEW q \in Requests, NEW does, NEW entry, NEW user, NEW status,
             \/ StatusCheck(q, does) \/ UpdateCheck(q, status) \/ SelectCheck(q, entry)
             \/ ReviewCheck(q, does, entry) \/ VoteCheckContest(q, user, entry)
             \/ SubmitCheck(q, user) \/ PrizeCheck(q)
      PROVE  UNCHANGED entries
  BY <1>3 DEF StatusCheck, UpdateCheck, SelectCheck, ReviewCheck, VoteCheckContest, SubmitCheck, PrizeCheck
<1>4. ASSUME NEW q \in Requests,
             \/ StatusWrite(q) \/ findWinningSubmission(q) \/ CompleteWrite(q) \/ SelectWrite(q)
             \/ PrizeWrite(q) \/ VoteCheckEntry(q) \/ VoteWrite(q) \/ CutShort(q)
      PROVE  UNCHANGED entries
  BY <1>4 DEF StatusWrite, findWinningSubmission, CompleteWrite, SelectWrite, PrizeWrite,
              VoteCheckEntry, VoteWrite, CutShort
<1>5. QED
  BY <1>1, <1>3, <1>4 DEF Next

LEMMA EntriesOnlyGrow == TypeOK /\ Asked /\ [Next]_vars => EntriesStay
<1> SUFFICES ASSUME TypeOK, Asked, [Next]_vars
             PROVE  EntriesStay
  OBVIOUS
<1>1. entries \in Seq(Entry) /\ DOMAIN entries = 1..Len(entries) /\ Len(entries) \in Nat
  BY LenProperties DEF TypeOK
<1>2. ASSUME NEW q \in Requests, SubmitWrite(q)
      PROVE  EntriesStay
  <2> DEFINE e == [author |-> request[q].user, status |-> "pending", approved |-> FALSE]
  <2>1. e \in Entry /\ ~ e.approved
    BY <1>2 DEF SubmitWrite, At, Asked, Entry
  <2>2. entries' = Append(entries, e) /\ Len(entries) < MaxEntries
    BY <1>2 DEF SubmitWrite
  <2> HIDE DEF e
  <2>3. /\ entries' \in Seq(Entry) /\ Len(entries') = Len(entries) + 1
        /\ \A s \in 1..Len(entries) : entries'[s] = entries[s]
        /\ entries'[Len(entries) + 1] = e
    BY <1>1, <2>1, <2>2, AppendProperties
  <2>4. DOMAIN entries' = 1..Len(entries')
    BY <2>3, LenProperties
  <2>5. QED
    BY <1>1, <2>1, <2>2, <2>3, <2>4, ContestsAssumption DEF EntriesStay, Reviewed
<1>3. ASSUME NEW q \in Requests, ReviewWrite(q)
      PROVE  EntriesStay
  <2> DEFINE i == request[q].entry
             e == [author |-> entries[i].author,
                   status |-> IF request[q].does = "approve" THEN "approved" ELSE "rejected",
                   approved |-> entries[i].approved \/ request[q].does = "approve"]
  <2>1. i \in 1..Len(entries)
    BY <1>1, <1>3 DEF ReviewWrite, Asked
  <2>2. entries' = [entries EXCEPT ![i] = e]
    BY <1>3 DEF ReviewWrite
  <2>3. entries[i] \in Entry
    BY <1>1, <2>1, ElementOfSeq
  <2>4. e \in Entry /\ e.author = entries[i].author /\ e.status # "pending"
    BY <2>3 DEF Entry
  <2> HIDE DEF e, i
  <2>5. /\ entries' \in Seq(Entry) /\ Len(entries') = Len(entries)
        /\ \A s \in 1..Len(entries) : entries'[s] = IF s = i THEN e ELSE entries[s]
    BY <1>1, <2>1, <2>2, <2>4, ExceptSeq
  <2>6. DOMAIN entries' = 1..Len(entries')
    BY <2>5, LenProperties
  <2>7. QED
    BY <1>1, <2>4, <2>5, <2>6 DEF EntriesStay, Reviewed, TypeOK
<1>4. CASE UNCHANGED entries
  BY <1>1, <1>4 DEF EntriesStay, Reviewed, TypeOK
<1>5. QED
  BY <1>2, <1>3, <1>4, EntryWriters

-----------------------------------------------------------------------------
(***************************************************************************)
(* The types hold after a step in which one request, q, moves on.          *)
(***************************************************************************)
LEMMA TypeKept ==
    ASSUME TypeOK, Asked, [Next]_vars,
           contest' \in Contest,
           votes' \in SUBSET ((DOMAIN entries) \X Users),
           prized' \in BOOLEAN, told' \in SUBSET Users,
           decided' \in {"nobody", "votes", "organiser"},
           led' \subseteq DOMAIN entries \cup {0},
           saw' \in SUBSET Oddities,
           NEW new \in Request, new.entry \in DOMAIN entries \cup {0},
           new.does \in {"submit", "vote", "select"} => new.user \in Users,
           new.does \in {"approve", "reject", "vote", "select"} => new.entry \in DOMAIN entries,
           UNCHANGED request \/ \E q \in Requests : request' = [request EXCEPT ![q] = new]
    PROVE  TypeOK' /\ Asked'
<1>1. /\ entries' \in Seq(Entry) /\ Len(entries') <= MaxEntries
      /\ \A s \in DOMAIN entries : s \in DOMAIN entries'
  BY EntriesOnlyGrow DEF EntriesStay
<1>2. \A r \in Requests : request'[r] = request[r] \/ request'[r] = new
  BY DEF TypeOK
<1>3. request' \in [Requests -> Request]
  BY DEF TypeOK
<1>4. votes' \subseteq (DOMAIN entries') \X Users
  BY <1>1
<1>5. /\ \A r \in Requests : request'[r].entry \in DOMAIN entries' \cup {0}
      /\ led' \subseteq DOMAIN entries' \cup {0}
  BY <1>1, <1>2 DEF TypeOK
<1>6. TypeOK'
  BY <1>1, <1>3, <1>4, <1>5 DEF TypeOK
<1>7. Asked'
  BY <1>1, <1>2 DEF Asked
<1>8. QED
  BY <1>6, <1>7

LEMMA TypeStep == TypeOK /\ Asked /\ [Next]_vars => TypeOK' /\ Asked'
<1> SUFFICES ASSUME TypeOK, Asked, [Next]_vars
             PROVE  TypeOK' /\ Asked'
  OBVIOUS
<1>1. Idle \in Request /\ Idle.entry = 0 /\ Idle.does = "nothing"
  BY ContestsAssumption DEF Idle, Request
<1>2. /\ entries \in Seq(Entry) /\ DOMAIN entries = 1..Len(entries)
      /\ Len(entries) \in Nat /\ DOMAIN entries \subseteq 0..MaxEntries
      /\ \A s \in DOMAIN entries : entries[s].author \in Users
  <2>1. entries \in Seq(Entry) /\ DOMAIN entries = 1..Len(entries) /\ Len(entries) \in Nat
    BY LenProperties DEF TypeOK
  <2>2. \A s \in DOMAIN entries : entries[s] \in Entry
    BY <2>1, ElementOfSeq
  <2>3. QED
    BY <2>1, <2>2, ContestsAssumption DEF TypeOK, Entry
<1>3. CASE UNCHANGED vars
  BY <1>1, <1>3, TypeKept DEF vars, TypeOK
<1>5. ASSUME NEW q \in Requests, NEW does \in {"start", "cancel", "complete"}, StatusCheck(q, does)
      PROVE  TypeOK' /\ Asked'
  <2> DEFINE new == [does |-> does, pc |-> "checked", user |-> None, entry |-> 0, status |-> "same"]
  <2>1. new \in Request
    BY ContestsAssumption DEF Request
  <2>2. UNCHANGED <<contest, entries, votes, prized, told, decided, led>> /\ saw' \in SUBSET Oddities
    BY <1>5 DEF StatusCheck, Note, Rivals, ReadsOr, Oddities, TypeOK
  <2>3. request' = [request EXCEPT ![q] = new]
    BY <1>5 DEF StatusCheck, Begin
  <2>4. QED
    BY <2>1, <2>2, <2>3, TypeKept DEF TypeOK
<1>6. ASSUME NEW q \in Requests, NEW status \in ContestStatus \cup {"same"}, UpdateCheck(q, status)
      PROVE  TypeOK' /\ Asked'
  <2> DEFINE new == [does |-> "update", pc |-> "checked", user |-> None, entry |-> 0, status |-> status]
  <2>1. new \in Request
    BY ContestsAssumption DEF Request
  <2>2. UNCHANGED <<contest, entries, votes, prized, told, decided, led>> /\ saw' \in SUBSET Oddities
    BY <1>6 DEF UpdateCheck, Note, Rivals, ReadsOr, Oddities, TypeOK
  <2>3. request' = [request EXCEPT ![q] = new]
    BY <1>6 DEF UpdateCheck
  <2>4. QED
    BY <2>1, <2>2, <2>3, TypeKept DEF TypeOK
<1>7. ASSUME NEW q \in Requests, NEW entry \in DOMAIN entries, SelectCheck(q, entry)
      PROVE  TypeOK' /\ Asked'
  <2> DEFINE new == [does |-> "select", pc |-> "checked", user |-> entries[entry].author,
                     entry |-> entry, status |-> "same"]
  <2>1. new \in Request
    BY <1>2 DEF Request
  <2>2. UNCHANGED <<contest, entries, votes, prized, told, decided, led>> /\ saw' \in SUBSET Oddities
    BY <1>7 DEF SelectCheck, Note, Rivals, ReadsOr, Oddities, TypeOK
  <2>3. request' = [request EXCEPT ![q] = new]
    BY <1>7 DEF SelectCheck, Begin
  <2>4. QED
    BY <1>2, <2>1, <2>2, <2>3, TypeKept DEF TypeOK
<1>8. ASSUME NEW q \in Requests, NEW entry \in DOMAIN entries, NEW does \in {"approve", "reject"},
             ReviewCheck(q, does, entry)
      PROVE  TypeOK' /\ Asked'
  <2> DEFINE new == [does |-> does, pc |-> "checked", user |-> None, entry |-> entry, status |-> "same"]
  <2>1. new \in Request
    BY <1>2 DEF Request
  <2>2. UNCHANGED <<contest, entries, votes, prized, told, decided, led, saw>>
    BY <1>8 DEF ReviewCheck
  <2>3. request' = [request EXCEPT ![q] = new]
    BY <1>8 DEF ReviewCheck, Begin
  <2>4. QED
    BY <2>1, <2>2, <2>3, TypeKept DEF TypeOK
<1>9. ASSUME NEW q \in Requests, NEW entry \in DOMAIN entries, NEW u \in Users, VoteCheckContest(q, u, entry)
      PROVE  TypeOK' /\ Asked'
  <2> DEFINE new == [does |-> "vote", pc |-> "checked", user |-> u, entry |-> entry, status |-> "same"]
  <2>1. new \in Request
    BY <1>2 DEF Request
  <2>2. /\ UNCHANGED <<contest, entries, votes, prized, told, decided, led>>
        /\ saw' \in SUBSET Oddities
    BY <1>9 DEF VoteCheckContest, ReadsOr, Note, Oddities, TypeOK
  <2>3. request' = [request EXCEPT ![q] = new]
    BY <1>9 DEF VoteCheckContest, Begin
  <2>4. QED
    BY <2>1, <2>2, <2>3, TypeKept DEF TypeOK
<1>10. ASSUME NEW q \in Requests, NEW u \in Users, SubmitCheck(q, u)
       PROVE  TypeOK' /\ Asked'
  <2> DEFINE new == [does |-> "submit", pc |-> "checked", user |-> u, entry |-> 0, status |-> "same"]
  <2>1. new \in Request
    BY ContestsAssumption DEF Request
  <2>2. /\ UNCHANGED <<contest, entries, votes, prized, told, decided, led>>
        /\ saw' \in SUBSET Oddities
    BY <1>10 DEF SubmitCheck, DoubleSubmit, Note, Oddities, TypeOK
  <2>3. request' = [request EXCEPT ![q] = new]
    BY <1>10 DEF SubmitCheck, Begin
  <2>4. QED
    BY <2>1, <2>2, <2>3, TypeKept DEF TypeOK
<1>11. ASSUME NEW q \in Requests, PrizeCheck(q)
       PROVE  TypeOK' /\ Asked'
  <2> DEFINE new == [does |-> "prize", pc |-> "checked", user |-> None, entry |-> 0, status |-> "same"]
  <2>1. new \in Request
    BY ContestsAssumption DEF Request
  <2>2. UNCHANGED <<contest, entries, votes, prized, told, decided, led, saw>>
    BY <1>11 DEF PrizeCheck
  <2>3. request' = [request EXCEPT ![q] = new]
    BY <1>11 DEF PrizeCheck, Begin
  <2>4. QED
    BY <2>1, <2>2, <2>3, TypeKept DEF TypeOK
<1>12. ASSUME NEW q \in Requests, findWinningSubmission(q)
       PROVE  TypeOK' /\ Asked'
  <2>1. PICK s \in led \cup Leaders :
           request' = [request EXCEPT ![q] = [does |-> "complete", pc |-> "found",
                         user |-> IF s = 0 THEN None ELSE entries[s].author,
                         entry |-> s, status |-> "same"]]
    BY <1>12 DEF findWinningSubmission
  <2> DEFINE new == [does |-> "complete", pc |-> "found",
                     user |-> IF s = 0 THEN None ELSE entries[s].author,
                     entry |-> s, status |-> "same"]
  <2>2. s \in DOMAIN entries \cup {0}
    BY DEF Leaders, TopByVotes, TypeOK
  <2>3. new \in Request
    BY <1>2, <2>2, ContestsAssumption DEF Request
  <2>4. /\ UNCHANGED <<contest, entries, votes, prized, told, decided, led>>
        /\ saw' \in SUBSET Oddities
    BY <1>12 DEF findWinningSubmission, Note, Oddities, TypeOK
  <2>5. QED
    BY <2>1, <2>2, <2>3, <2>4, TypeKept DEF TypeOK
<1>13. ASSUME NEW q \in Requests, StatusWrite(q) \/ CompleteWrite(q) \/ SelectWrite(q) \/ CutShort(q)
       PROVE  TypeOK' /\ Asked'
  <2>1. request' = [request EXCEPT ![q] = Idle] /\ UNCHANGED <<entries, votes, prized, led, saw>>
    BY <1>13 DEF StatusWrite, CompleteWrite, SelectWrite, CutShort, End
  <2>2. request[q] \in Request /\ (request[q].does = "select" => request[q].user \in Users)
    BY DEF TypeOK, Asked
  <2>3. contest' \in Contest
    <3>1. CASE StatusWrite(q)
      <4>1. \/ UNCHANGED contest
            \/ \E status \in ContestStatus : SetContest(status, contest.winner)
        <5>1. request[q].status \in ContestStatus \cup {"same"}
          BY <2>2 DEF Request
        <5>2. "active" \in ContestStatus /\ "cancelled" \in ContestStatus
          BY DEF ContestStatus
        <5>3. QED
          BY <3>1, <5>1, <5>2 DEF StatusWrite
      <4>2. CASE UNCHANGED contest
        BY <4>2 DEF TypeOK
      <4>3. ASSUME NEW status \in ContestStatus, SetContest(status, contest.winner)
            PROVE  contest' \in Contest
        BY <4>3 DEF SetContest, TypeOK, Contest
      <4>4. QED
        BY <4>1, <4>2, <4>3
    <3>2. CASE CompleteWrite(q)
      BY <2>2, <3>2 DEF CompleteWrite, SetContest, TypeOK, Contest, ContestStatus, Request
    <3>3. CASE SelectWrite(q)
      <4>1. request[q].user \in Users
        BY <2>2, <3>3 DEF SelectWrite, At
      <4>2. QED
        BY <3>3, <4>1 DEF SelectWrite, SetContest, TypeOK, Contest, ContestStatus
    <3>4. CASE CutShort(q)
      BY <3>4 DEF CutShort, TypeOK
    <3>5. QED
      BY <1>13, <3>1, <3>2, <3>3, <3>4
  <2>4. told' \in SUBSET Users /\ decided' \in {"nobody", "votes", "organiser"}
    BY <1>13, <2>2 DEF StatusWrite, CompleteWrite, SelectWrite, CutShort, At, TypeOK, Request
  <2>5. QED
    BY <1>1, <2>1, <2>3, <2>4, TypeKept DEF TypeOK
<1>14. ASSUME NEW q \in Requests, PrizeWrite(q) \/ ReviewWrite(q) \/ SubmitWrite(q) \/ VoteWrite(q)
       PROVE  TypeOK' /\ Asked'
  <2>1. /\ request' = [request EXCEPT ![q] = Idle]
        /\ UNCHANGED <<contest, told, decided, saw>>
        /\ prized' \in BOOLEAN
        /\ led' \subseteq DOMAIN entries \cup {0}
    BY <1>14 DEF PrizeWrite, ReviewWrite, SubmitWrite, VoteWrite, End, Leaders, TopByVotes, TypeOK
  <2>2. votes' \in SUBSET ((DOMAIN entries) \X Users)
    BY <1>14 DEF PrizeWrite, ReviewWrite, SubmitWrite, VoteWrite, At, Asked, TypeOK
  <2>3. QED
    BY <1>1, <2>1, <2>2, TypeKept DEF TypeOK
<1>15. ASSUME NEW q \in Requests, VoteCheckEntry(q)
       PROVE  TypeOK' /\ Asked'
  <2> DEFINE found == [does |-> "vote", pc |-> "found", user |-> request[q].user,
                       entry |-> request[q].entry, status |-> "same"]
  <2>1. found \in Request /\ found.user \in Users /\ found.entry \in DOMAIN entries
    BY <1>2, <1>15 DEF VoteCheckEntry, At, Asked, Request, TypeOK
  <2>2. UNCHANGED <<contest, entries, votes, prized, told, decided, led, saw>>
    BY <1>15 DEF VoteCheckEntry
  <2>3. request' = [request EXCEPT ![q] = found]
    BY <1>15 DEF VoteCheckEntry, TypeOK
  <2>4. QED
    BY <1>1, <2>1, <2>2, <2>3, TypeKept DEF TypeOK
<1>16. QED
  BY <1>3, <1>5, <1>6, <1>7, <1>8, <1>9, <1>10, <1>11, <1>12, <1>13, <1>14, <1>15 DEF Next

LEMMA InitTyped == Init => TypeOK /\ Asked
<1> SUFFICES ASSUME Init PROVE TypeOK /\ Asked
  OBVIOUS
<1>1. Idle \in Request /\ Idle.entry = 0 /\ Idle.does = "nothing"
  BY ContestsAssumption DEF Idle, Request
<1>2. entries \in Seq(Entry) /\ Len(entries) <= MaxEntries
  BY ContestsAssumption, EmptySeq DEF Init
<1>3. contest \in Contest
  BY DEF Init, Contest, ContestStatus
<1>4. QED
  BY <1>1, <1>2, <1>3 DEF Init, TypeOK, Asked

(***************************************************************************)
(* The tables and requests are well typed, and what a vote or a request is *)
(* about exists.                                                           *)
(***************************************************************************)
THEOREM ContestsTypeCorrect == Spec => []TypeOK
BY InitTyped, TypeStep, PTL DEF Spec

-----------------------------------------------------------------------------
(***************************************************************************)
(* A vote about to be written is one for somebody else's reviewed entry.   *)
(***************************************************************************)
Earned ==
    /\ VotesAreEarned
    /\ Reviewed
    /\ \A q \in Requests : At(q, "vote", "found") =>
          /\ entries[request[q].entry].author # request[q].user
          /\ entries[request[q].entry].status # "pending"

(***************************************************************************)
(* The submissions in progress are those of different writers, who have no *)
(* entry yet: a look-up that misses an entry is noted.                     *)
(***************************************************************************)
FirstEntries ==
    saw \cap {"double_submit", "old_entry"} = {} =>
        /\ \A s, t \in DOMAIN entries : entries[s].author = entries[t].author => s = t
        /\ \A q \in Doing({"submit"}) :
              /\ \A s \in DOMAIN entries : entries[s].author # request[q].user
              /\ \A r \in Doing({"submit"}) : request[q].user = request[r].user => q = r

(***************************************************************************)
(* While changes of status do not overlap, the only one in progress is of  *)
(* a contest that is not over, and nothing that presupposes an outcome has *)
(* happened yet; a contest that is over stays as it is.                    *)
(***************************************************************************)
Undisputed ==
    saw \cap {"rivals", "old_status"} = {} =>
        /\ "completed" \in contest.was => contest.status = "completed"
        /\ \A q, r \in Doing(Organiser) : q = r
        /\ Doing(Organiser) # {} => contest.status \notin Terminal
        /\ Doing({"prize"}) # {} => contest.status = "completed"
        /\ told \subseteq {contest.winner}
        /\ prized \/ told # {} \/ contest.winner # None \/ decided # "nobody"
              => contest.status = "completed"

(***************************************************************************)
(* The writer of a leading entry, or nobody while there are no votes.      *)
(***************************************************************************)
Elected(u) ==
    \/ votes = {} /\ u = None
    \/ \E s \in DOMAIN entries : /\ entries[s].author = u
                                 /\ \A t \in DOMAIN entries : Votes(t) <= Votes(s)

\* What does not matter to the votes.
Harmless == {"double_submit", "old_entry"}

(***************************************************************************)
(* Unless a vote overlapped the look-up, none is being cast from then on,  *)
(* so who was found is still ahead when the outcome is written, and later. *)
(***************************************************************************)
Tally ==
    /\ IsFiniteSet(votes)
    /\ saw \subseteq Harmless =>
        /\ \A q \in Requests : At(q, "complete", "found") =>
              Doing({"vote"}) = {} /\ Elected(request[q].user)
        /\ contest.status = "completed" /\ decided = "votes" =>
              Doing({"vote"}) = {} /\ Elected(contest.winner)

-----------------------------------------------------------------------------
(***************************************************************************)
(* Only the second check of a vote and its write matter to the votes.      *)
(***************************************************************************)
LEMMA VotersOnly ==
    ASSUME TypeOK, [Next]_vars,
           \A q \in Requests : ~ VoteCheckEntry(q) /\ ~ VoteWrite(q)
    PROVE  /\ UNCHANGED votes
           /\ \A q \in Requests : At(q, "vote", "found")' => request'[q] = request[q]
<1>1. CASE UNCHANGED vars
  BY <1>1 DEF vars
<1>3. ASSUME NEW q \in Requests, NEW does, NEW entry, NEW user, NEW status,
             \/ StatusCheck(q, does) \/ UpdateCheck(q, status) \/ SelectCheck(q, entry)
             \/ ReviewCheck(q, does, entry) \/ VoteCheckContest(q, user, entry)
             \/ SubmitCheck(q, user) \/ PrizeCheck(q)
      PROVE  /\ UNCHANGED votes
             /\ request'[q].pc = "checked"
             /\ \A r \in Requests \ {q} : request'[r] = request[r]
  BY <1>3 DEF StatusCheck, UpdateCheck, SelectCheck, ReviewCheck, VoteCheckContest, SubmitCheck,
              PrizeCheck, Begin, TypeOK
<1>4. ASSUME NEW q \in Requests, findWinningSubmission(q)
      PROVE  /\ UNCHANGED votes
             /\ request'[q].does = "complete"
             /\ \A r \in Requests \ {q} : request'[r] = request[r]
  BY <1>4 DEF findWinningSubmission, TypeOK
<1>5. ASSUME NEW q \in Requests,
             \/ StatusWrite(q) \/ CompleteWrite(q) \/ SelectWrite(q)
             \/ PrizeWrite(q) \/ ReviewWrite(q) \/ SubmitWrite(q) \/ CutShort(q)
      PROVE  /\ UNCHANGED votes
             /\ request'[q].pc = "idle"
             /\ \A r \in Requests \ {q} : request'[r] = request[r]
  BY <1>5 DEF StatusWrite, CompleteWrite, SelectWrite, PrizeWrite, ReviewWrite, SubmitWrite, CutShort,
              End, Idle, TypeOK
<1>6. QED
  BY <1>1, <1>3, <1>4, <1>5 DEF Next, At

LEMMA EarnedStep == TypeOK /\ Asked /\ Earned /\ [Next]_vars => Earned'
<1> SUFFICES ASSUME TypeOK, Asked, Earned, [Next]_vars
             PROVE  Earned'
  OBVIOUS
<1>1. \A s \in DOMAIN entries :
        /\ entries'[s].author = entries[s].author
        /\ entries[s].status # "pending" => entries'[s].status # "pending"
  BY EntriesOnlyGrow DEF EntriesStay
<1> Reviewed'
  BY EntriesOnlyGrow DEF EntriesStay, Earned
<1>2. \A q \in Requests : At(q, "vote", "found") => request[q].entry \in DOMAIN entries
  BY DEF Asked, At
<1>3. \A v \in votes : v[1] \in DOMAIN entries
  BY DEF TypeOK
<1>4. ASSUME NEW q \in Requests, VoteCheckEntry(q)
      PROVE  Earned'
  <2>1. UNCHANGED <<votes, entries>> /\ \A r \in Requests \ {q} : request'[r] = request[r]
    BY <1>4 DEF VoteCheckEntry, TypeOK
  <2>2. /\ request'[q].user = request[q].user /\ request'[q].entry = request[q].entry
        /\ entries[request[q].entry].author # request[q].user
        /\ entries[request[q].entry].approved
    BY <1>4 DEF VoteCheckEntry, TypeOK
  <2>4. request[q].entry \in DOMAIN entries
    BY <1>4 DEF VoteCheckEntry, Asked, At
  <2>3. QED
    BY <2>1, <2>2, <2>4 DEF Earned, VotesAreEarned, At, Reviewed
<1>5. ASSUME NEW q \in Requests, VoteWrite(q)
      PROVE  Earned'
  <2>1. /\ UNCHANGED entries
        /\ votes' = votes \cup {<<request[q].entry, request[q].user>>}
        /\ request'[q] = Idle /\ \A r \in Requests \ {q} : request'[r] = request[r]
    BY <1>5 DEF VoteWrite, End, TypeOK
  <2>2. /\ entries[request[q].entry].author # request[q].user
        /\ entries[request[q].entry].status # "pending"
    BY <1>5 DEF VoteWrite, Earned
  <2>3. QED
    BY <2>1, <2>2 DEF Earned, VotesAreEarned, At, Idle
<1>6. CASE \A q \in Requests : ~ VoteCheckEntry(q) /\ ~ VoteWrite(q)
  <2>1. /\ UNCHANGED votes
        /\ \A q \in Requests : At(q, "vote", "found")' => At(q, "vote", "found") /\ request'[q] = request[q]
    BY <1>6, VotersOnly DEF At
  <2>2. VotesAreEarned'
    BY <1>1, <1>3, <2>1 DEF Earned, VotesAreEarned
  <2>3. QED
    BY <1>1, <1>2, <2>1, <2>2 DEF Earned
<1>7. QED
  BY <1>4, <1>5, <1>6

(***************************************************************************)
(* Each vote counts for somebody else's entry that had been reviewed: the  *)
(* checks of castVote hold at the insert, whatever came in between.        *)
(***************************************************************************)
THEOREM VotesEarned == Spec => []VotesAreEarned
<1>1. Init => TypeOK /\ Asked
  BY InitTyped
<1>2. Init => Earned
  BY DEF Init, Earned, VotesAreEarned, At, Idle, Reviewed
<1>3. Earned => VotesAreEarned
  BY DEF Earned
<1>4. QED
  BY <1>1, <1>2, <1>3, TypeStep, EarnedStep, PTL DEF Spec

-----------------------------------------------------------------------------
(***************************************************************************)
(* Only submitStory matters to who has an entry.                           *)
(***************************************************************************)
LEMMA SubmittersOnly ==
    ASSUME TypeOK, Asked, [Next]_vars,
           \A q \in Requests : ~ SubmitWrite(q) /\ \A u \in Users : ~ SubmitCheck(q, u)
    PROVE  /\ Len(entries') = Len(entries)
           /\ \A q \in Doing({"submit"})' : q \in Doing({"submit"}) /\ request'[q] = request[q]
           /\ saw \subseteq saw'
<1>1. Len(entries') = Len(entries)
  <2>1. ASSUME NEW q \in Requests, ReviewWrite(q)
        PROVE  Len(entries') = Len(entries)
    BY <2>1 DEF ReviewWrite, TypeOK
  <2>2. QED
    BY <2>1, EntryWriters
<1>2. CASE UNCHANGED vars
  BY <1>1, <1>2 DEF vars, Doing
<1>4. ASSUME NEW q \in Requests, NEW does \in {"start", "cancel", "complete", "approve", "reject"},
             NEW entry, NEW user, NEW status,
             \/ StatusCheck(q, does) \/ UpdateCheck(q, status) \/ SelectCheck(q, entry)
             \/ ReviewCheck(q, does, entry) \/ VoteCheckContest(q, user, entry) \/ PrizeCheck(q)
      PROVE  /\ saw \subseteq saw'
             /\ request'[q].does # "submit"
             /\ \A r \in Requests \ {q} : request'[r] = request[r]
  BY <1>4 DEF StatusCheck, UpdateCheck, SelectCheck, ReviewCheck, VoteCheckContest,
              PrizeCheck, ReadsOr, Begin, Note, TypeOK
<1>5. ASSUME NEW q \in Requests, findWinningSubmission(q) \/ VoteCheckEntry(q)
      PROVE  /\ saw \subseteq saw'
             /\ request'[q].does # "submit"
             /\ \A r \in Requests \ {q} : request'[r] = request[r]
  BY <1>5 DEF findWinningSubmission, VoteCheckEntry, Idle, Note, TypeOK
<1>6. ASSUME NEW q \in Requests,
             \/ StatusWrite(q) \/ CompleteWrite(q) \/ SelectWrite(q)
             \/ PrizeWrite(q) \/ ReviewWrite(q) \/ VoteWrite(q) \/ CutShort(q)
      PROVE  /\ saw \subseteq saw'
             /\ request'[q].does # "submit"
             /\ \A r \in Requests \ {q} : request'[r] = request[r]
  BY <1>6 DEF StatusWrite, CompleteWrite, SelectWrite, PrizeWrite, ReviewWrite, VoteWrite, CutShort,
              End, Idle, TypeOK
<1>7. QED
  BY <1>1, <1>2, <1>4, <1>5, <1>6 DEF Next, Doing

LEMMA FirstEntriesStep == TypeOK /\ Asked /\ FirstEntries /\ [Next]_vars => FirstEntries'
<1> SUFFICES ASSUME TypeOK, Asked, FirstEntries, [Next]_vars,
                    saw' \cap {"double_submit", "old_entry"} = {}
             PROVE  FirstEntries'
  BY DEF FirstEntries
<1>1. /\ \A s \in DOMAIN entries : entries'[s].author = entries[s].author
      /\ DOMAIN entries = 1..Len(entries) /\ DOMAIN entries' = 1..Len(entries')
      /\ entries \in Seq(Entry) /\ Len(entries) \in Nat
  BY EntriesOnlyGrow, LenProperties DEF EntriesStay, TypeOK
<1>2. ASSUME NEW q \in Requests, NEW u \in Users, SubmitCheck(q, u)
      PROVE  FirstEntries'
  <2>1. /\ UNCHANGED entries /\ saw \cup DoubleSubmit(u) \subseteq saw'
        /\ \A s \in DOMAIN entries : entries[s].author # u
        /\ request'[q].does = "submit" /\ request'[q].user = u
        /\ \A r \in Requests \ {q} : request'[r] = request[r]
    BY <1>2 DEF SubmitCheck, Begin, Note, TypeOK
  <2>2. saw \cap {"double_submit", "old_entry"} = {} /\ \A r \in Doing({"submit"}) : request[r].user # u
    BY <2>1 DEF DoubleSubmit
  <2>3. \A r \in Doing({"submit"})' : r = q \/ (r \in Doing({"submit"}) /\ request'[r] = request[r])
    BY <2>1 DEF Doing
  <2>4. \A s, t \in DOMAIN entries' : entries'[s].author = entries'[t].author => s = t
    BY <2>1, <2>2 DEF FirstEntries
  <2>5. \A r \in Doing({"submit"})' : \A s \in DOMAIN entries' : entries'[s].author # request'[r].user
    BY <2>1, <2>2, <2>3 DEF FirstEntries
  <2>6. \A r, x \in Doing({"submit"})' : request'[r].user = request'[x].user => r = x
    BY <2>1, <2>2, <2>3 DEF FirstEntries
  <2>7. QED
    BY <2>4, <2>5, <2>6 DEF FirstEntries
<1>3. ASSUME NEW q \in Requests, SubmitWrite(q)
      PROVE  FirstEntries'
  <2>1. /\ UNCHANGED saw /\ q \in Doing({"submit"})
        /\ request'[q].does = "nothing"
        /\ \A r \in Requests \ {q} : request'[r] = request[r]
    BY <1>3 DEF SubmitWrite, At, End, Idle, Doing, TypeOK
  <2>2. [author |-> request[q].user, status |-> "pending", approved |-> FALSE] \in Entry
    BY <2>1 DEF Asked, Doing, Entry
  <2>3. /\ Len(entries') = Len(entries) + 1
        /\ entries'[Len(entries) + 1].author = request[q].user
    BY <1>1, <1>3, <2>2, AppendProperties DEF SubmitWrite
  <2>4. \A s \in DOMAIN entries' :
          \/ s \in DOMAIN entries /\ entries'[s].author = entries[s].author
          \/ s = Len(entries) + 1 /\ entries'[s].author = request[q].user
    BY <1>1, <2>3
  <2>5. \A r \in Doing({"submit"})' : r # q /\ r \in Doing({"submit"}) /\ request'[r] = request[r]
    BY <2>1 DEF Doing
  <2>6. \A s, t \in DOMAIN entries : entries[s].author = entries[t].author => s = t
    BY <2>1 DEF FirstEntries
  <2>7. \A s \in DOMAIN entries : entries[s].author # request[q].user
    BY <2>1 DEF FirstEntries
  <2>8. \A s, t \in DOMAIN entries' : entries'[s].author = entries'[t].author => s = t
    BY <2>4, <2>6, <2>7
  <2>9. \A r \in Doing({"submit"})' : /\ \A s \in DOMAIN entries : entries[s].author # request[r].user
                                      /\ request[r].user # request[q].user
    BY <2>1, <2>5 DEF FirstEntries
  <2>10. ASSUME NEW r \in Doing({"submit"})', NEW s \in DOMAIN entries'
         PROVE  entries'[s].author # request'[r].user
    <3>1. request'[r] = request[r] /\ request[r].user # request[q].user
      BY <2>5, <2>9
    <3>2. CASE s \in DOMAIN entries /\ entries'[s].author = entries[s].author
      BY <2>9, <3>1, <3>2
    <3>3. CASE entries'[s].author = request[q].user
      BY <3>1, <3>3
    <3>4. QED
      BY <2>4, <3>2, <3>3
  <2>11. \A r, x \in Doing({"submit"})' : request'[r].user = request'[x].user => r = x
    BY <2>1, <2>5 DEF FirstEntries
  <2>12. QED
    BY <2>8, <2>10, <2>11 DEF FirstEntries
<1>4. CASE \A q \in Requests : ~ SubmitWrite(q) /\ \A u \in Users : ~ SubmitCheck(q, u)
  <2>1. /\ DOMAIN entries' = DOMAIN entries
        /\ \A q \in Doing({"submit"})' : q \in Doing({"submit"}) /\ request'[q] = request[q]
        /\ saw \cap {"double_submit", "old_entry"} = {}
    BY <1>1, <1>4, SubmittersOnly
  <2>2. QED
    BY <1>1, <2>1 DEF FirstEntries
<1>5. QED
  BY <1>2, <1>3, <1>4

(***************************************************************************)
(* A writer has one entry, unless two of the writer's own requests         *)
(* overlapped or a replica did not know the first: submitStory looks for   *)
(* an entry and there is no index.                                         *)
(***************************************************************************)
THEOREM OneEntryPerWriter == Spec => []OneEntryEach
<1>1. Init => TypeOK /\ Asked
  BY InitTyped
<1>2. Init => FirstEntries
  BY DEF Init, FirstEntries, Doing, Idle
<1>3. FirstEntries => OneEntryEach
  BY DEF FirstEntries, OneEntryEach
<1>4. QED
  BY <1>1, <1>2, <1>3, TypeStep, FirstEntriesStep, PTL DEF Spec

-----------------------------------------------------------------------------
(***************************************************************************)
(* Undisputed survives a step that leaves the outcome and its traces alone *)
(* and starts no change of status and no prize.                            *)
(***************************************************************************)
LEMMA UndisputedKept ==
    ASSUME Undisputed,
           UNCHANGED contest,
           UNCHANGED <<told, prized, decided>>,
           saw \subseteq saw',
           Doing(Organiser)' \subseteq Doing(Organiser),
           Doing({"prize"})' \subseteq Doing({"prize"})
    PROVE  Undisputed'
<1> SUFFICES ASSUME saw' \cap {"rivals", "old_status"} = {}
             PROVE  Undisputed'
  BY DEF Undisputed
<1>1. saw \cap {"rivals", "old_status"} = {}
  OBVIOUS
<1>2. \A q, r \in Doing(Organiser)' : q = r
  BY <1>1 DEF Undisputed
<1>3. QED
  BY <1>1, <1>2 DEF Undisputed

LEMMA UndisputedStep == TypeOK /\ Undisputed /\ [Next]_vars => Undisputed'
<1> SUFFICES ASSUME TypeOK, Undisputed, [Next]_vars
             PROVE  Undisputed'
  OBVIOUS
<1>1. CASE UNCHANGED vars
  <2>1. UNCHANGED <<contest, told, prized, decided, saw, request>>
    BY <1>1 DEF vars
  <2>2. QED
    BY <2>1, UndisputedKept DEF Doing
<1>2. ASSUME NEW q \in Requests, NEW does \in {"start", "cancel", "complete"},
             NEW status, NEW entry,
             StatusCheck(q, does) \/ UpdateCheck(q, status) \/ SelectCheck(q, entry)
      PROVE  Undisputed'
  <2>1. /\ UNCHANGED <<contest, told, prized, decided>> /\ saw \cup Rivals \subseteq saw'
        /\ "old_status" \notin saw' => contest.status \notin Terminal
        /\ request'[q].does \in Organiser
        /\ \A r \in Requests \ {q} : request'[r] = request[r]
    BY <1>2 DEF StatusCheck, UpdateCheck, SelectCheck, Wanted, Unfinished, ReadsOr, Note, Begin,
                Terminal, Organiser, TypeOK
  <2>2. Doing({"prize"})' \subseteq Doing({"prize"})
    BY <2>1 DEF Doing, Organiser
  <2>3. ASSUME "rivals" \notin saw'
        PROVE  \A r \in Doing(Organiser)' : r = q
    <3>1. Doing(Organiser) = {}
      BY <2>1, <2>3 DEF Rivals
    <3>2. QED
      BY <2>1, <3>1 DEF Doing
  <2>4. QED
    BY <2>1, <2>2, <2>3 DEF Undisputed
<1>3. ASSUME NEW q \in Requests, PrizeCheck(q)
      PROVE  Undisputed'
  <2>1. /\ UNCHANGED <<contest, told, prized, decided, saw>>
        /\ "completed" \in contest.was
        /\ request'[q].does = "prize"
        /\ \A r \in Requests \ {q} : request'[r] = request[r]
    BY <1>3 DEF PrizeCheck, Reads, Begin, TypeOK
  <2>2. Doing(Organiser)' \subseteq Doing(Organiser)
    BY <2>1 DEF Doing, Organiser
  <2>3. QED
    BY <2>1, <2>2 DEF Undisputed
<1>4. ASSUME NEW q \in Requests, NEW does \in {"approve", "reject"}, NEW entry, NEW user,
             \/ ReviewCheck(q, does, entry) \/ VoteCheckContest(q, user, entry) \/ SubmitCheck(q, user)
      PROVE  Undisputed'
  <2>1. /\ UNCHANGED <<contest, told, prized, decided>> /\ saw \subseteq saw'
        /\ request'[q].does \notin Organiser \cup {"prize"}
        /\ \A r \in Requests \ {q} : request'[r] = request[r]
    BY <1>4 DEF ReviewCheck, VoteCheckContest, SubmitCheck, ReadsOr, Begin, Note, Organiser, TypeOK
  <2>2. QED
    BY <2>1, UndisputedKept DEF Doing
<1>5. ASSUME NEW q \in Requests,
             \/ ReviewWrite(q) \/ SubmitWrite(q) \/ VoteCheckEntry(q) \/ VoteWrite(q) \/ CutShort(q)
      PROVE  Undisputed'
  <2>1. /\ UNCHANGED <<contest, told, prized, decided, saw>>
        /\ request'[q].does \notin Organiser \cup {"prize"}
        /\ \A r \in Requests \ {q} : request'[r] = request[r]
    BY <1>5 DEF ReviewWrite, SubmitWrite, VoteCheckEntry, VoteWrite, CutShort, End, Idle, Organiser, TypeOK
  <2>2. QED
    BY <2>1, UndisputedKept DEF Doing
<1>6. ASSUME NEW q \in Requests, findWinningSubmission(q)
      PROVE  Undisputed'
  <2>1. /\ UNCHANGED <<contest, told, prized, decided>> /\ saw \subseteq saw'
        /\ request[q].does = "complete" /\ request'[q].does = "complete"
        /\ \A r \in Requests \ {q} : request'[r] = request[r]
    BY <1>6 DEF findWinningSubmission, Note, At, TypeOK
  <2>2. QED
    BY <2>1, UndisputedKept DEF Doing
<1>7. ASSUME NEW q \in Requests, PrizeWrite(q)
      PROVE  Undisputed'
  <2>1. /\ UNCHANGED <<contest, told, decided, led, saw>>
        /\ q \in Doing({"prize"})
        /\ request'[q].does = "nothing"
        /\ \A r \in Requests \ {q} : request'[r] = request[r]
    BY <1>7 DEF PrizeWrite, At, End, Idle, Doing, TypeOK
  <2>2. /\ Doing(Organiser)' \subseteq Doing(Organiser)
        /\ Doing({"prize"})' \subseteq Doing({"prize"})
    BY <2>1 DEF Doing, Organiser
  <2>3. QED
    BY <2>1, <2>2 DEF Undisputed
<1>8. ASSUME NEW q \in Requests, StatusWrite(q) \/ CompleteWrite(q) \/ SelectWrite(q)
      PROVE  Undisputed'
  <2>1. /\ UNCHANGED <<prized, saw>>
        /\ q \in Doing(Organiser)
        /\ request'[q].does = "nothing"
        /\ \A r \in Requests \ {q} : request'[r] = request[r]
    BY <1>8 DEF StatusWrite, CompleteWrite, SelectWrite, At, End, Idle, Doing, Organiser, TypeOK
  <2> SUFFICES ASSUME saw \cap {"rivals", "old_status"} = {}
               PROVE  Undisputed'
    BY <2>1 DEF Undisputed
  <2>2. /\ contest.status \notin Terminal
        /\ \A r \in Doing(Organiser) : r = q
    BY <2>1 DEF Undisputed
  <2>3. /\ told = {} /\ ~ prized /\ contest.winner = None /\ decided = "nobody"
        /\ Doing({"prize"}) = {} /\ "completed" \notin contest.was
    BY <2>2 DEF Undisputed, Terminal, TypeOK
  <2>4. Doing(Organiser)' = {} /\ Doing({"prize"})' = {}
    BY <2>1, <2>2, <2>3 DEF Doing, Organiser
  <2>5. CASE StatusWrite(q)
    <3>1. UNCHANGED <<told, decided, led>>
      BY <2>5 DEF StatusWrite
    <3>2. PICK active, status :
             \/ UNCHANGED contest
             \/ SetContest(active, contest.winner) \/ SetContest(status, contest.winner)
      BY <2>5 DEF StatusWrite
    <3>3. contest'.winner = contest.winner /\ contest'.was \subseteq contest.was \cup {contest'.status}
      BY <3>2 DEF SetContest
    <3>4. QED
      BY <2>1, <2>3, <2>4, <3>1, <3>3 DEF Undisputed
  <2>6. CASE CompleteWrite(q)
    <3>1. /\ contest'.status = "completed"
          /\ contest'.winner = request[q].user
          /\ told' \subseteq {request[q].user}
      BY <2>3, <2>6 DEF CompleteWrite, SetContest
    <3>2. QED
      BY <2>4, <3>1 DEF Undisputed
  <2>7. CASE SelectWrite(q)
    <3>1. /\ contest'.status = "completed"
          /\ contest'.winner = request[q].user
          /\ told' = {request[q].user}
      BY <2>3, <2>7 DEF SelectWrite, SetContest
    <3>2. QED
      BY <2>4, <3>1 DEF Undisputed
  <2>8. QED
    BY <1>8, <2>5, <2>6, <2>7
<1>9. QED
  BY <1>1, <1>2, <1>3, <1>4, <1>5, <1>6, <1>7, <1>8 DEF Next

LEMMA InitUndisputed == Init => Undisputed
BY DEF Init, Undisputed, Doing, Idle, Organiser

(***************************************************************************)
(* While the organiser's changes of status do not overlap and none passes  *)
(* on an outdated row, an outcome stands: the checks of every route for a  *)
(* contest that is over, together, keep who was told and the prize in      *)
(* agreement with the row, whatever replicas answer to the other checks.   *)
(***************************************************************************)
THEOREM TheOutcomeStands == Spec => []OutcomeStands
<1>1. Undisputed => OutcomeStands
  BY DEF Undisputed, OutcomeStands
<1>2. QED
  BY <1>1, InitUndisputed, UndisputedStep, ContestsTypeCorrect, PTL DEF Spec

-----------------------------------------------------------------------------
(***************************************************************************)
(* Votes are counted in natural numbers; an entry that came later has      *)
(* none.                                                                   *)
(***************************************************************************)
LEMMA VotesCounted ==
    ASSUME IsFiniteSet(votes), NEW s
    PROVE  Votes(s) \in Nat
<1>1. {v \in votes : v[1] = s} \in SUBSET votes
  OBVIOUS
<1>2. QED
  BY <1>1, FS_Subset, FS_CardinalityType DEF Votes

LEMMA NoVotes ==
    ASSUME TypeOK, NEW s, s \notin DOMAIN entries
    PROVE  Votes(s) = 0
<1>1. {v \in votes : v[1] = s} = {}
  BY DEF TypeOK
<1>2. QED
  BY <1>1, FS_EmptySet DEF Votes

(***************************************************************************)
(* Where there are entries, one of them leads: the entry that fewest are   *)
(* ahead of has nobody ahead.                                              *)
(***************************************************************************)
LEMMA SomebodyLeads ==
    ASSUME TypeOK, IsFiniteSet(votes), DOMAIN entries # {}
    PROVE  TopByVotes # {}
<1> DEFINE D == DOMAIN entries
           Ahead(s) == {t \in D : Votes(s) < Votes(t)}
           A == {Ahead(s) : s \in D}
<1>1. IsFiniteSet(D)
  <2>1. Len(entries) \in Nat /\ D = 1..Len(entries)
    BY LenProperties DEF TypeOK
  <2>2. QED
    BY <2>1, FS_Interval
<1>2. \A s \in D : Votes(s) \in Nat
  BY VotesCounted
<1> HIDE DEF D
<1>3. A \subseteq SUBSET D /\ A # {}
  BY DEF D
<1>4. IsWellFoundedOn(StrictSubsetOrdering(D), SUBSET D)
  BY <1>1, FS_StrictSubsetOrderingWellFounded, FS_FiniteSubsetsOfFinite
<1>5. PICK a \in A : \A b \in A : ~ (<<b, a>> \in StrictSubsetOrdering(D))
  <2> HIDE DEF A
  <2>1. QED
    BY <1>3, <1>4, WFMin
<1>6. PICK s \in D : a = Ahead(s)
  OBVIOUS
<1>7. ASSUME NEW t \in D, Votes(s) < Votes(t)
      PROVE  FALSE
  <2>1. Ahead(t) \subseteq Ahead(s)
    BY <1>2, <1>7
  <2>2. t \in Ahead(s) /\ t \notin Ahead(t)
    BY <1>2, <1>7
  <2>3. Ahead(t) # Ahead(s)
    BY <2>2
  <2>4. <<Ahead(t), Ahead(s)>> \in StrictSubsetOrdering(D)
    BY <2>1, <2>3 DEF StrictSubsetOrdering
  <2>5. QED
    BY <1>5, <1>6, <2>4
<1>8. \A t \in D : Votes(t) <= Votes(s)
  BY <1>2, <1>7
<1>9. QED
  BY <1>8 DEF TopByVotes, D

(***************************************************************************)
(* An entry that comes later does not overtake.                            *)
(***************************************************************************)
LEMMA ElectedKept ==
    ASSUME TypeOK, IsFiniteSet(votes), EntriesStay, UNCHANGED votes, NEW u, Elected(u)
    PROVE  Elected(u)'
<1>1. CASE votes = {} /\ u = None
  BY <1>1 DEF Elected
<1>2. ASSUME NEW s \in DOMAIN entries, entries[s].author = u,
             \A t \in DOMAIN entries : Votes(t) <= Votes(s)
      PROVE  Elected(u)'
  <2>1. s \in DOMAIN entries' /\ entries'[s].author = u
    BY <1>2 DEF EntriesStay
  <2>2. \A t : Votes(t)' = Votes(t)
    BY DEF Votes
  <2>3. ASSUME NEW t \in DOMAIN entries'
        PROVE  Votes(t) <= Votes(s)
    <3>1. CASE t \in DOMAIN entries
      BY <1>2, <3>1
    <3>2. CASE t \notin DOMAIN entries
      <4>1. Votes(t) = 0 /\ Votes(s) \in Nat
        BY <3>2, NoVotes, VotesCounted
      <4>2. QED
        BY <4>1
    <3>3. QED
      BY <3>1, <3>2
  <2>4. \A t \in DOMAIN entries' : Votes(t)' <= Votes(s)'
    BY <2>2, <2>3
  <2>5. QED
    BY <2>1, <2>4 DEF Elected
<1>3. QED
  BY <1>1, <1>2 DEF Elected

(***************************************************************************)
(* Tally survives a step that casts no vote, looks up no winner and does   *)
(* not complete the contest by the votes.                                  *)
(***************************************************************************)
LEMMA TallyKept ==
    ASSUME TypeOK, EntriesStay, Tally, UNCHANGED votes, saw \subseteq saw',
           \A r \in Requests :
              \/ request'[r] = request[r]
              \/ request'[r].does # "vote" /\ request'[r].pc # "found",
           saw' \subseteq Harmless /\ contest'.status = "completed" /\ decided' = "votes"
              => contest.status = "completed" /\ decided = "votes" /\ contest'.winner = contest.winner
    PROVE  Tally'
<1>1. IsFiniteSet(votes) /\ IsFiniteSet(votes')
  BY DEF Tally
<1> SUFFICES ASSUME saw' \subseteq Harmless
             PROVE  Tally'
  BY <1>1 DEF Tally
<1>2. saw \subseteq Harmless /\ Doing({"vote"})' \subseteq Doing({"vote"})
  BY DEF Doing
<1>3. ASSUME NEW q \in Requests, At(q, "complete", "found")'
      PROVE  Doing({"vote"})' = {} /\ Elected(request[q].user)'
  <2>1. request'[q] = request[q] /\ At(q, "complete", "found")
    BY <1>3 DEF At
  <2>2. PICK u : u = request[q].user
    OBVIOUS
  <2>3. Doing({"vote"}) = {} /\ Elected(u)
    BY <1>2, <2>1, <2>2 DEF Tally
  <2>4. Elected(u)'
    BY <1>1, <2>3, ElectedKept
  <2>5. QED
    BY <1>2, <2>1, <2>2, <2>3, <2>4
<1>4. ASSUME contest'.status = "completed", decided' = "votes"
      PROVE  Doing({"vote"})' = {} /\ Elected(contest.winner)'
  <2>1. PICK u : u = contest.winner
    OBVIOUS
  <2>2. Doing({"vote"}) = {} /\ Elected(u) /\ contest'.winner = u
    BY <1>2, <1>4, <2>1 DEF Tally
  <2>3. Elected(u)'
    BY <1>1, <2>2, ElectedKept
  <2>4. QED
    BY <1>2, <2>2, <2>3
<1>5. QED
  BY <1>1, <1>3, <1>4 DEF Tally

(***************************************************************************)
(* The check of the contest by a vote: a complete that found its winner is *)
(* noted, as is a row that is outdated; and a contest that takes votes is  *)
(* not completed.                                                          *)
(***************************************************************************)
LEMMA VoteBegun ==
    ASSUME TypeOK, Tally, NEW q \in Requests, NEW u, NEW entry, VoteCheckContest(q, u, entry)
    PROVE  Tally'
<1>1. /\ UNCHANGED <<contest, votes>>
      /\ "late_vote" \notin saw' => contest.status = "voting"
      /\ saw \subseteq saw'
      /\ IsFiniteSet(votes) /\ IsFiniteSet(votes')
  BY DEF VoteCheckContest, ReadsOr, Note, Tally
<1>2. request'[q].does = "vote" /\ \A r \in Requests \ {q} : request'[r] = request[r]
  BY DEF VoteCheckContest, Begin, TypeOK
<1> SUFFICES ASSUME saw' \subseteq Harmless
             PROVE  Tally'
  BY <1>1 DEF Tally
<1>3. ~ \E c \in Requests : At(c, "complete", "found")
  BY DEF VoteCheckContest, ReadsOr, Note, Harmless
<1>4. ~ \E c \in Requests : At(c, "complete", "found")'
  BY <1>2, <1>3 DEF At
<1>5. QED
  BY <1>1, <1>4 DEF Tally, Harmless

(***************************************************************************)
(* While a vote is being cast, no winner was found that Tally speaks of.   *)
(***************************************************************************)
LEMMA VoteCast ==
    ASSUME TypeOK, Tally, NEW q \in Requests, VoteCheckEntry(q) \/ VoteWrite(q)
    PROVE  Tally'
<1>1. q \in Doing({"vote"})
  BY DEF VoteCheckEntry, VoteWrite, At, Doing
<1>2. UNCHANGED <<contest, decided, saw>>
  BY DEF VoteCheckEntry, VoteWrite
<1>3. request'[q].does # "complete" /\ \A r \in Requests \ {q} : request'[r] = request[r]
  <2>1. CASE VoteCheckEntry(q)
    BY <2>1 DEF VoteCheckEntry, Idle, TypeOK
  <2>2. CASE VoteWrite(q)
    BY <2>2 DEF VoteWrite, End, Idle, TypeOK
  <2>3. QED
    BY <2>1, <2>2
<1>4. IsFiniteSet(votes')
  <2>1. IsFiniteSet(votes)
    BY DEF Tally
  <2>2. CASE VoteCheckEntry(q)
    BY <2>1, <2>2 DEF VoteCheckEntry
  <2>3. CASE VoteWrite(q)
    BY <2>1, <2>3, FS_AddElement DEF VoteWrite
  <2>4. QED
    BY <2>2, <2>3
<1> SUFFICES ASSUME saw \subseteq Harmless
             PROVE  Tally'
  BY <1>2, <1>4 DEF Tally
<1>5. \A r \in Requests : ~ At(r, "complete", "found")
  BY <1>1 DEF Tally
<1>6. \A r \in Requests : ~ At(r, "complete", "found")'
  BY <1>3, <1>5 DEF At
<1>7. ~ (contest.status = "completed" /\ decided = "votes")
  BY <1>1 DEF Tally
<1>8. QED
  BY <1>2, <1>4, <1>6, <1>7 DEF Tally

(***************************************************************************)
(* findWinningSubmission returns the author of an entry nobody is ahead    *)
(* of, or nobody where there is no entry and so no vote.                   *)
(***************************************************************************)
LEMMA WinnerFound ==
    ASSUME TypeOK, EntriesStay, Tally, NEW q \in Requests, findWinningSubmission(q)
    PROVE  Tally'
<1>1. UNCHANGED <<contest, entries, votes, decided>> /\ saw \subseteq saw'
  BY DEF findWinningSubmission, Note
<1>2. IsFiniteSet(votes) /\ IsFiniteSet(votes')
  BY <1>1 DEF Tally
<1> SUFFICES ASSUME saw' \subseteq Harmless
             PROVE  Tally'
  BY <1>2 DEF Tally
<1>3. saw \subseteq Harmless /\ Doing({"vote"}) = {}
  BY DEF findWinningSubmission, Note, Harmless
<1>4. PICK s \in Leaders :
         request' = [request EXCEPT ![q] = [does |-> "complete", pc |-> "found",
                        user |-> IF s = 0 THEN None ELSE entries[s].author,
                        entry |-> s, status |-> "same"]]
  <2>1. PICK s \in led \cup Leaders :
          /\ request' = [request EXCEPT ![q] = [does |-> "complete", pc |-> "found",
                            user |-> IF s = 0 THEN None ELSE entries[s].author,
                            entry |-> s, status |-> "same"]]
          /\ saw' = saw \cup ((IF Doing({"vote"}) = {} THEN {} ELSE {"vote_overlap"}) \cup
                             (IF s \in Leaders THEN {} ELSE {"old_votes"}))
    BY DEF findWinningSubmission, Note
  <2>2. s \in Leaders
    BY <2>1 DEF Harmless
  <2> QED BY <2>1, <2>2
<1>5. /\ request'[q].does = "complete"
      /\ request'[q].user = IF s = 0 THEN None ELSE entries[s].author
      /\ \A r \in Requests \ {q} : request'[r] = request[r]
  BY <1>4 DEF TypeOK
<1>6. Doing({"vote"})' = {}
  BY <1>3, <1>5 DEF Doing
<1>7. PICK u : u = request'[q].user
  OBVIOUS
<1>8. Elected(u)
  <2>1. CASE TopByVotes = {}
    <3>1. DOMAIN entries = {}
      BY <1>2, <2>1, SomebodyLeads
    <3>2. votes = {}
      BY <3>1 DEF TypeOK
    <3>3. QED
      BY <1>4, <1>5, <1>7, <2>1, <3>2 DEF Elected, Leaders
  <2>2. CASE TopByVotes # {}
    <3>1. s \in DOMAIN entries /\ \A t \in DOMAIN entries : Votes(t) <= Votes(s)
      BY <1>4, <2>2 DEF Leaders, TopByVotes
    <3>2. s # 0
      <4>1. DOMAIN entries = 1..Len(entries) /\ Len(entries) \in Nat
        BY LenProperties DEF TypeOK
      <4>2. QED
        BY <3>1, <4>1
    <3>3. QED
      BY <1>5, <1>7, <3>1, <3>2 DEF Elected
  <2>3. QED
    BY <2>1, <2>2
<1>9. Elected(u)'
  BY <1>1, <1>2, <1>8, ElectedKept
<1>10. ASSUME NEW r \in Requests, At(r, "complete", "found")'
       PROVE  Elected(request[r].user)'
  <2>1. CASE r = q
    BY <1>7, <1>9, <2>1
  <2>2. CASE r # q
    <3>1. request'[r] = request[r] /\ At(r, "complete", "found")
      BY <1>5, <1>10, <2>2 DEF At
    <3>2. PICK v : v = request[r].user
      OBVIOUS
    <3>3. Elected(v)
      BY <1>3, <3>1, <3>2 DEF Tally
    <3>4. Elected(v)'
      BY <1>1, <1>2, <3>3, ElectedKept
    <3>5. QED
      BY <3>1, <3>2, <3>4
  <2>3. QED
    BY <2>1, <2>2
<1>11. ASSUME contest'.status = "completed", decided' = "votes"
       PROVE  Elected(contest.winner)'
  <2>1. PICK v : v = contest.winner
    OBVIOUS
  <2>2. Elected(v)
    BY <1>1, <1>3, <1>11, <2>1 DEF Tally
  <2>3. Elected(v)'
    BY <1>1, <1>2, <2>2, ElectedKept
  <2>4. QED
    BY <1>1, <2>1, <2>3
<1>12. QED
  BY <1>2, <1>6, <1>10, <1>11 DEF Tally

(***************************************************************************)
(* The write of complete(): it was the only change of status in progress,  *)
(* so there was no winner yet and who was found becomes the winner.        *)
(***************************************************************************)
LEMMA WinnerWritten ==
    ASSUME TypeOK, EntriesStay, Undisputed, Tally, NEW q \in Requests, CompleteWrite(q)
    PROVE  Tally'
<1>1. UNCHANGED <<votes, saw>> /\ At(q, "complete", "found")
  BY DEF CompleteWrite
<1>2. IsFiniteSet(votes) /\ IsFiniteSet(votes')
  BY <1>1 DEF Tally
<1> SUFFICES ASSUME saw \subseteq Harmless
             PROVE  Tally'
  BY <1>1, <1>2 DEF Tally
<1>3. Doing({"vote"}) = {} /\ Elected(request[q].user)
  BY <1>1 DEF Tally
<1>4. /\ request'[q].does = "nothing" /\ request'[q].pc = "idle"
      /\ \A r \in Requests \ {q} : request'[r] = request[r]
  BY DEF CompleteWrite, End, Idle, TypeOK
<1>5. Doing({"vote"})' = {}
  BY <1>3, <1>4 DEF Doing
<1>6. contest.winner = None
  <2> saw \cap {"rivals", "old_status"} = {}
    BY DEF Harmless
  <2>1. q \in Doing(Organiser)
    BY <1>1 DEF Doing, At, Organiser
  <2>2. contest.status # "completed"
    BY <2>1 DEF Undisputed, Terminal
  <2>3. QED
    BY <2>2 DEF Undisputed
<1>7. contest'.winner = request[q].user
  BY <1>6 DEF CompleteWrite, SetContest
<1>8. PICK u : u = request[q].user
  OBVIOUS
<1>9. Elected(u)'
  BY <1>1, <1>2, <1>3, <1>8, ElectedKept
<1>10. Elected(contest.winner)'
  BY <1>7, <1>8, <1>9
<1>11. ASSUME NEW r \in Requests, At(r, "complete", "found")'
       PROVE  Elected(request[r].user)'
  <2>1. request'[r] = request[r] /\ At(r, "complete", "found")
    BY <1>4, <1>11 DEF At
  <2>2. PICK v : v = request[r].user
    OBVIOUS
  <2>3. Elected(v)
    BY <2>1, <2>2 DEF Tally
  <2>4. Elected(v)'
    BY <1>1, <1>2, <2>3, ElectedKept
  <2>5. QED
    BY <2>1, <2>2, <2>4
<1>12. QED
  BY <1>2, <1>5, <1>10, <1>11 DEF Tally

LEMMA TallyStep == TypeOK /\ Asked /\ Undisputed /\ Tally /\ [Next]_vars => Tally'
<1> SUFFICES ASSUME TypeOK, Asked, Undisputed, Tally, [Next]_vars
             PROVE  Tally'
  OBVIOUS
<1>1. EntriesStay
  BY EntriesOnlyGrow
<1>2. CASE UNCHANGED vars
  <2>1. UNCHANGED <<contest, votes, decided, saw, request>>
    BY <1>2 DEF vars
  <2>2. QED
    BY <1>1, <2>1, TallyKept
<1>3. ASSUME NEW q \in Requests, NEW does \in {"start", "cancel", "complete"},
             NEW status, NEW entry, NEW user, NEW review \in {"approve", "reject"},
             \/ StatusCheck(q, does) \/ UpdateCheck(q, status) \/ SelectCheck(q, entry)
             \/ ReviewCheck(q, review, entry) \/ SubmitCheck(q, user) \/ PrizeCheck(q)
      PROVE  Tally'
  <2>1. UNCHANGED <<contest, votes, decided>> /\ saw \subseteq saw'
    BY <1>3 DEF StatusCheck, UpdateCheck, SelectCheck, ReviewCheck, SubmitCheck, PrizeCheck, ReadsOr, Note
  <2>2. /\ request'[q].does # "vote" /\ request'[q].pc = "checked"
        /\ \A r \in Requests \ {q} : request'[r] = request[r]
    BY <1>3 DEF StatusCheck, UpdateCheck, SelectCheck, ReviewCheck, SubmitCheck, PrizeCheck, Begin, TypeOK
  <2>3. QED
    BY <1>1, <2>1, <2>2, TallyKept
<1>4. ASSUME NEW q \in Requests, PrizeWrite(q) \/ ReviewWrite(q) \/ SubmitWrite(q) \/ CutShort(q)
      PROVE  Tally'
  <2>1. UNCHANGED <<contest, votes, decided, saw>>
    BY <1>4 DEF PrizeWrite, ReviewWrite, SubmitWrite, CutShort
  <2>2. /\ request'[q].does # "vote" /\ request'[q].pc = "idle"
        /\ \A r \in Requests \ {q} : request'[r] = request[r]
    BY <1>4 DEF PrizeWrite, ReviewWrite, SubmitWrite, CutShort, End, Idle, TypeOK
  <2>3. QED
    BY <1>1, <2>1, <2>2, TallyKept
<1>5. ASSUME NEW q \in Requests, StatusWrite(q) \/ SelectWrite(q)
      PROVE  Tally'
  <2>1. UNCHANGED <<votes, saw>>
    BY <1>5 DEF StatusWrite, SelectWrite
  <2>2. /\ request'[q].does # "vote" /\ request'[q].pc = "idle"
        /\ \A r \in Requests \ {q} : request'[r] = request[r]
    BY <1>5 DEF StatusWrite, SelectWrite, End, Idle, TypeOK
  <2>3. ASSUME saw \subseteq Harmless
        PROVE  decided' # "votes"
    <3>1. CASE StatusWrite(q)
      <4>1. q \in Doing(Organiser)
        BY <3>1 DEF StatusWrite, At, Doing, Organiser
      <4>2. decided = "nobody"
        BY <2>3, <4>1 DEF Undisputed, Terminal, Harmless
      <4>3. QED
        BY <3>1, <4>2 DEF StatusWrite
    <3>2. CASE SelectWrite(q)
      BY <3>2 DEF SelectWrite
    <3>3. QED
      BY <1>5, <3>1, <3>2
  <2>4. QED
    BY <1>1, <2>1, <2>2, <2>3, TallyKept
<1>6. QED
  BY <1>1, <1>2, <1>3, <1>4, <1>5, VoteBegun, VoteCast, WinnerFound, WinnerWritten DEF Next

(***************************************************************************)
(* Unless a vote was being cast while complete() looked up the winner,     *)
(* changes of status overlapped, or one of the checks or the look-up was   *)
(* answered by a replica that had been overtaken, the winner of complete() *)
(* has the most votes there will ever be, and there is no winner only      *)
(* without a vote.                                                         *)
(***************************************************************************)
THEOREM TheMostVotesWin == Spec => []WinnerHasMostVotes
<1>1. Init => TypeOK /\ Asked
  BY InitTyped
<1>2. Init => Undisputed
  BY InitUndisputed
<1>3. Init => Tally
  BY FS_EmptySet DEF Init, Tally, At, Idle
<1>4. Tally => WinnerHasMostVotes
  BY DEF Tally, WinnerHasMostVotes, Elected, Harmless
<1>5. QED
  BY <1>1, <1>2, <1>3, <1>4, TypeStep, UndisputedStep, TallyStep, PTL DEF Spec
=============================================================================
