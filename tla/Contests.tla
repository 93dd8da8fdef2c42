------------------------------ MODULE Contests ------------------------------
(***************************************************************************)
(* One writing contest (modules/contests): entries, their review, votes,   *)
(* the organiser's changes of status, the choice of the winner and the     *)
(* prizes.  Every route reads, checks and then writes by id, with nothing  *)
(* held in between; several requests are in progress at a time.            *)
(*                                                                         *)
(* The clock runs and PATCH moves the dates either way, so a check of one  *)
(* may pass or refuse whenever it is made.  Titles, categories, the cache  *)
(* (see TaggedCache) and the wording of notifications are left out.        *)
(*                                                                         *)
(* Every check selects, and the router may send a select to a replica: it  *)
(* is answered by the row as it is or as it once was.                      *)
(***************************************************************************)
EXTENDS Integers, FiniteSets, Sequences

CONSTANTS
    Users,      \* who enters and who votes
    Requests,   \* the requests in progress at the same time
    MaxEntries, \* how many submissions are made
    MaxOddities, \* how many kinds of oddities (below) one behaviour may show
    None        \* nobody

ASSUME ContestsAssumption ==
    MaxEntries \in Nat /\ MaxOddities \in Nat /\ None \notin Users

VARIABLES
    contest, \* the row: status, winner_id; and the statuses it has had
    entries, \* contest_submissions, oldest first, and whether each was ever approved
    votes,   \* contest_votes: <<submission, user>>
    prized,  \* was a prize recorded in contest_prizes?
    request, \* each request: what it does, where it is, what it was asked and has read
    told,    \* the users winner.selected was emitted for
    decided, \* history: who chose the winner last
    led,     \* history: what findWinningSubmission would have answered so far
    saw      \* what has happened so far that some properties exclude

vars == <<contest, entries, votes, prized, request, told, decided, led, saw>>

ContestStatus == {"draft", "active", "voting", "completed", "cancelled"}
Terminal == {"completed", "cancelled"}

Idle == [does |-> "nothing", pc |-> "idle", user |-> None, entry |-> 0, status |-> "same"]

Contest == [status: ContestStatus, winner: Users \cup {None}, was: SUBSET ContestStatus]

Entry == [author: Users, status: {"pending", "approved", "rejected"}, approved: BOOLEAN]

Request == [does: {"nothing", "start", "cancel", "update", "complete", "select",
                   "submit", "approve", "reject", "vote", "prize"},
            pc: {"idle", "checked", "found"},
            user: Users \cup {None}, entry: 0..MaxEntries, status: ContestStatus \cup {"same"}]

Oddities == {"rivals",        \* two changes of status overlapped
             "old_status",    \* a change of status was checked against an older row
             "vote_overlap",  \* a vote was being cast while the winner was looked up
             "late_vote",     \* a vote was checked against an older contest row
             "old_votes",     \* the winner was looked up among older votes
             "double_submit", \* two submissions of one writer overlapped
             "old_entry"}     \* a submission was checked against older entries

\* The types, and a vote, a request or a former leader names an entry that exists.
TypeOK ==
    /\ contest \in Contest
    /\ entries \in Seq(Entry) /\ Len(entries) <= MaxEntries
    /\ votes \subseteq (DOMAIN entries) \X Users
    /\ prized \in BOOLEAN /\ told \subseteq Users
    /\ request \in [Requests -> Request]
    /\ \A q \in Requests : request[q].entry \in DOMAIN entries \cup {0}
    /\ decided \in {"nobody", "votes", "organiser"}
    /\ led \subseteq DOMAIN entries \cup {0}
    /\ saw \subseteq Oddities

Init ==
    /\ contest = [status |-> "draft", winner |-> None, was |-> {"draft"}]
    /\ entries = <<>>
    /\ votes = {} /\ prized = FALSE /\ told = {}
    /\ request = [q \in Requests |-> Idle]
    /\ decided = "nobody"
    /\ led = {}
    /\ saw = {}

Doing(does) == {q \in Requests : request[q].does \in does}

Organiser == {"start", "cancel", "update", "complete", "select"}

\* A request goes from its checks to its write.
Begin(q, does, user, entry) ==
    /\ request[q] = Idle
    /\ request' = [request EXCEPT ![q] = [does |-> does, pc |-> "checked", user |-> user,
                      entry |-> entry, status |-> "same"]]

Note(oddities) ==
    /\ saw' = saw \cup oddities
    /\ Cardinality(saw') <= MaxOddities

At(q, does, pc) == request[q].does = does /\ request[q].pc = pc

End(q) == request' = [request EXCEPT ![q] = Idle]

\* updateContest writes by id, whatever the row says now.
SetContest(status, winner) ==
    contest' = [status |-> status, winner |-> winner, was |-> contest.was \cup {status}]

\* findContestById answers with a row whose status is one of these.
Reads(statuses) == contest.was \cap statuses # {}

\* The same, and it is noted (as odd) that an older row may have answered.
ReadsOr(statuses, oddities, odd) ==
    \/ contest.status \in statuses /\ Note(oddities)
    \/ Reads(statuses) /\ Note(oddities \cup {odd})

-----------------------------------------------------------------------------
(***************************************************************************)
(* The organiser.  History: another change of status may be in progress.   *)
(***************************************************************************)
Rivals == IF Doing(Organiser) = {} THEN {} ELSE {"rivals"}

Unfinished == ContestStatus \ Terminal

\* start, cancel and complete: the status they want.
Wanted(does) == IF does = "start" THEN {"draft"} ELSE Unfinished

StatusCheck(q, does) ==
    /\ Begin(q, does, None, 0)
    /\ ReadsOr(Wanted(does), Rivals, "old_status")
    /\ UNCHANGED <<contest, entries, votes, prized, told, decided, led>>

\* Mutant: a contest that is over may be edited.
UpdateUnchecked(q, status) ==
    /\ request[q] = Idle
    /\ request' = [request EXCEPT ![q] = [does |-> "update", pc |-> "checked", user |-> None,
                      entry |-> 0, status |-> status]]
    /\ Note(Rivals)
    /\ UNCHANGED <<contest, entries, votes, prized, told, decided, led>>

\* PATCH may write any status, or only the other columns (the status stays the same).
UpdateCheck(q, status) ==
    /\ request[q] = Idle
    /\ request' = [request EXCEPT ![q] = [does |-> "update", pc |-> "checked", user |-> None,
                      entry |-> 0, status |-> status]]
    /\ ReadsOr(Unfinished, Rivals, "old_status")
    /\ UNCHANGED <<contest, entries, votes, prized, told, decided, led>>

SelectCheck(q, entry) ==
    /\ Begin(q, "select", entries[entry].author, entry)
    /\ ReadsOr({"voting"}, Rivals, "old_status")
    /\ UNCHANGED <<contest, entries, votes, prized, told, decided, led>>

StatusWrite(q) ==
    /\ \/ At(q, "start", "checked") /\ SetContest("active", contest.winner)
       \/ At(q, "cancel", "checked") /\ SetContest("cancelled", contest.winner)
       \/ /\ At(q, "update", "checked")
          /\ IF request[q].status = "same"
             THEN UNCHANGED contest
             ELSE SetContest(request[q].status, contest.winner)
    /\ End(q)
    /\ UNCHANGED <<entries, votes, prized, told, decided, led, saw>>

Votes(entry) == Cardinality({v \in votes : v[1] = entry})

\* Mutant: ascending.
LastByVotes == {s \in DOMAIN entries : \A t \in DOMAIN entries : Votes(s) <= Votes(t)}

\* Any entry with the most votes, whatever its review said; there is no second sort key.
TopByVotes == {s \in DOMAIN entries : \A t \in DOMAIN entries : Votes(t) <= Votes(s)}

Leaders == IF TopByVotes = {} THEN {0} ELSE TopByVotes

findWinningSubmission(q) ==
    /\ At(q, "complete", "checked")
    /\ \E s \in led \cup Leaders :
          /\ request' = [request EXCEPT ![q] = [does |-> "complete", pc |-> "found",
                            user |-> IF s = 0 THEN None ELSE entries[s].author,
                            entry |-> s, status |-> "same"]]
          /\ Note((IF Doing({"vote"}) = {} THEN {} ELSE {"vote_overlap"}) \cup
                  (IF s \in Leaders THEN {} ELSE {"old_votes"}))
    /\ UNCHANGED <<contest, entries, votes, prized, told, decided, led>>

\* Without a winner the column is left as it is.
CompleteWrite(q) ==
    /\ At(q, "complete", "found")
    /\ LET winner == request[q].user
       IN  /\ SetContest("completed", IF winner = None THEN contest.winner ELSE winner)
           /\ told' = told \cup ({winner} \ {None})
    /\ decided' = "votes"
    /\ End(q)
    /\ UNCHANGED <<entries, votes, prized, led, saw>>

SelectWrite(q) ==
    /\ At(q, "select", "checked")
    /\ SetContest("completed", request[q].user)
    /\ told' = told \cup {request[q].user}
    /\ decided' = "organiser"
    /\ End(q)
    /\ UNCHANGED <<entries, votes, prized, led, saw>>

\* The prize goes to whomever the organiser names.
PrizeCheck(q) ==
    /\ Reads({"completed"})
    /\ Begin(q, "prize", None, 0)
    /\ UNCHANGED <<contest, entries, votes, prized, told, decided, led, saw>>

PrizeWrite(q) ==
    /\ At(q, "prize", "checked")
    /\ prized' = TRUE
    /\ End(q)
    /\ UNCHANGED <<contest, entries, votes, told, decided, led, saw>>

ReviewCheck(q, does, entry) ==
    /\ Reads({"active", "voting"})
    /\ Begin(q, does, None, entry)
    /\ UNCHANGED <<contest, entries, votes, prized, told, decided, led, saw>>

\* reviewSubmission writes by id: a review may be reversed.
ReviewWrite(q) ==
    /\ request[q].does \in {"approve", "reject"}
    /\ entries' = [entries EXCEPT ![request[q].entry] =
          [author |-> @.author,
           status |-> IF request[q].does = "approve" THEN "approved" ELSE "rejected",
           approved |-> @.approved \/ request[q].does = "approve"]]
    /\ End(q)
    /\ UNCHANGED <<contest, votes, prized, told, decided, led, saw>>

-----------------------------------------------------------------------------
(***************************************************************************)
(* Writers and voters.                                                     *)
(***************************************************************************)

DoubleSubmit(u) ==
    IF \E q \in Doing({"submit"}) : request[q].user = u THEN {"double_submit"} ELSE {}

\* Mutant: a writer may enter again.
SubmitUnchecked(q, u) ==
    /\ Reads({"active"})
    /\ Begin(q, "submit", u, 0)
    /\ Note(DoubleSubmit(u))
    /\ UNCHANGED <<contest, entries, votes, prized, told, decided, led>>

\* The writer must have no entry; a replica may not know it yet.
SubmitCheck(q, u) ==
    /\ Reads({"active"})
    /\ Begin(q, "submit", u, 0)
    /\ \/ Note(DoubleSubmit(u)) /\ \A s \in DOMAIN entries : entries[s].author # u
       \/ Note(DoubleSubmit(u) \cup {"old_entry"})
    /\ UNCHANGED <<contest, entries, votes, prized, told, decided, led>>

\* No unique index: the insert does not notice another entry of the author.
SubmitWrite(q) ==
    /\ At(q, "submit", "checked")
    /\ Len(entries) < MaxEntries
    /\ entries' = Append(entries, [author |-> request[q].user, status |-> "pending",
                                   approved |-> FALSE])
    /\ led' = led \cup Leaders
    /\ End(q)
    /\ UNCHANGED <<contest, votes, prized, told, decided, saw>>

VoteCheckContest(q, u, entry) ==
    /\ Begin(q, "vote", u, entry)
    /\ ReadsOr({"voting"},
               IF \E c \in Requests : At(c, "complete", "found") THEN {"vote_overlap"} ELSE {},
               "late_vote")
    /\ UNCHANGED <<contest, entries, votes, prized, told, decided, led>>

\* Mutant: the review of the entry is not looked at.
VoteCheckAnyEntry(q) ==
    /\ At(q, "vote", "checked")
    /\ LET e == entries[request[q].entry]
       IN  /\ e.author # request[q].user
           /\ request' = [request EXCEPT ![q] =
                  [does |-> "vote", pc |-> "found", user |-> @.user, entry |-> @.entry,
                   status |-> "same"]]
    /\ UNCHANGED <<contest, entries, votes, prized, told, decided, led, saw>>

\* An entry of somebody else that is, or once was, approved; or the request is refused
\* (CutShort), as it may be on an older row, too.
VoteCheckEntry(q) ==
    /\ At(q, "vote", "checked")
    /\ LET e == entries[request[q].entry]
       IN  /\ e.author # request[q].user /\ e.approved
           /\ request' = [request EXCEPT ![q] =
                  [does |-> "vote", pc |-> "found", user |-> @.user, entry |-> @.entry,
                   status |-> "same"]]
    /\ UNCHANGED <<contest, entries, votes, prized, told, decided, led, saw>>

\* Mutant: the columns of the vote are swapped.
VoteWriteSwapped(q) ==
    /\ At(q, "vote", "found")
    /\ votes' = votes \cup {<<request[q].user, request[q].entry>>}
    /\ led' = led \cup Leaders
    /\ End(q)
    /\ UNCHANGED <<contest, entries, prized, told, decided, saw>>

\* contest_votes_unique_idx refuses a second vote, as the check before it does.
VoteWrite(q) ==
    /\ At(q, "vote", "found")
    /\ votes' = votes \cup {<<request[q].entry, request[q].user>>}
    /\ led' = led \cup Leaders
    /\ End(q)
    /\ UNCHANGED <<contest, entries, prized, told, decided, saw>>

\* The request rejects or its process dies before the write.
CutShort(q) ==
    /\ request[q] # Idle
    /\ End(q)
    /\ UNCHANGED <<contest, entries, votes, prized, told, decided, led, saw>>

-----------------------------------------------------------------------------
Next ==
    \E q \in Requests :
          \/ \E does \in {"start", "cancel", "complete"} : StatusCheck(q, does)
          \/ \E status \in ContestStatus \cup {"same"} : UpdateCheck(q, status)
          \/ \E entry \in DOMAIN entries :
                \/ SelectCheck(q, entry)
                \/ \E does \in {"approve", "reject"} : ReviewCheck(q, does, entry)
                \/ \E u \in Users : VoteCheckContest(q, u, entry)
          \/ \E u \in Users : SubmitCheck(q, u)
          \/ PrizeCheck(q)
          \/ StatusWrite(q) \/ findWinningSubmission(q) \/ CompleteWrite(q) \/ SelectWrite(q)
          \/ PrizeWrite(q) \/ ReviewWrite(q) \/ SubmitWrite(q)
          \/ VoteCheckEntry(q) \/ VoteWrite(q) \/ CutShort(q)

Spec == Init /\ [][Next]_vars

-----------------------------------------------------------------------------
(***************************************************************************)
(* Properties.                                                             *)
(***************************************************************************)

(***************************************************************************)
(* As long as the organiser's changes of status did not overlap and each   *)
(* was checked against the row as it was, an outcome stands: nobody but    *)
(* the winner was told to have won, nobody was told of a contest that is   *)
(* not completed, and a prize belongs to a completed contest.  The         *)
(* terminal checks of every route, together; the other checks may have     *)
(* been answered by a replica.                                             *)
(***************************************************************************)
OutcomeStands ==
    saw \cap {"rivals", "old_status"} = {} =>
        /\ told \subseteq {contest.winner}
        /\ prized \/ told # {} => contest.status = "completed"

(***************************************************************************)
(* Each vote counts for somebody else's entry that was once approved: an   *)
(* entry that was never reviewed has no votes, whichever rows the checks   *)
(* of castVote are answered with.  Reviews may be reversed meanwhile.      *)
(***************************************************************************)
VotesAreEarned ==
    \A v \in votes : entries[v[1]].author # v[2] /\ entries[v[1]].status # "pending"

(***************************************************************************)
(* The winner of complete() has the most votes there will ever be: none is *)
(* counted later, unless one was being cast while the winner was looked    *)
(* up, or a replica let a vote pass after the voting or did not know all   *)
(* votes.  There is no winner only if there was no entry; one that came in *)
(* during the look-up has no votes.                                        *)
(***************************************************************************)
WinnerHasMostVotes ==
    contest.status = "completed" /\ decided = "votes" /\ saw \subseteq {"double_submit", "old_entry"}
        => \/ votes = {} /\ contest.winner = None
           \/ \E s \in DOMAIN entries : /\ entries[s].author = contest.winner
                                        /\ \A t \in DOMAIN entries : Votes(t) <= Votes(s)

(***************************************************************************)
(* A writer has one entry, unless two of the writer's own requests         *)
(* overlapped or the look-up of the first entry was answered by a replica  *)
(* without it: the check of submitStory has no index behind it.            *)
(***************************************************************************)
OneEntryEach ==
    saw \cap {"double_submit", "old_entry"} = {} =>
        \A s, t \in DOMAIN entries : entries[s].author = entries[t].author => s = t
=============================================================================
