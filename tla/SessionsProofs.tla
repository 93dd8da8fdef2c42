---------------------------- MODULE SessionsProofs --------------------------
(***************************************************************************)
(* For any number of requests, tokens and codes: the types of Sessions,    *)
(* one successor per refresh token, one password per reset code, and       *)
(* revocation that lasts.  The invariant has a part for each.              *)
(***************************************************************************)
EXTENDS Sessions, SequenceTheorems, FiniteSetTheorems, TLAPS

Kinds == {"nothing", "refresh", "forgot", "reset", "upgrade"}
Pcs == {"idle", "burned?", "blocked?", "banned?", "refuse", "burn", "mint",
        "key", "row?", "write", "delete", "block"}

\* Texts and predecessors are of tokens minted; a refresh holds a token that has not
\* expired, a reset or its request a code there is.
Referring ==
    /\ valid \subseteq Minted
    /\ \A s \in Minted : tokens[s].from \in Minted \cup {0}
    /\ \A q \in Requests :
        /\ request[q].does = "refresh" => request[q].arg \in valid
        /\ request[q].does \in {"forgot", "reset"} => request[q].arg \in 1..issued

\* Who refreshes with t and did not meet another refresh of it is alone; when it may mint,
\* t is burned; and when t has a successor, nobody gets past the blacklist with t again.
Rotating ==
    \A t \in Tokens \ rivals.tokens :
        /\ \A p, q \in Doing("refresh", t) : p = q
        /\ \A q \in Doing("refresh", t) : request[q].pc = "mint" => t \in burned
        /\ \A r, s \in Minted : tokens[r].from = t /\ tokens[s].from = t => r = s
        /\ \A s \in Minted : tokens[s].from = t =>
              /\ t \in valid => t \in burned
              /\ \A q \in Doing("refresh", t) : request[q].pc = "burned?"

\* A code that no two resets presented together: after its use it is not in the row, will
\* not be again, and nobody is past the comparison with it.
Spending ==
    \A c \in Codes \ rivals.codes :
        /\ \A p, q \in Doing("reset", c) : p = q
        /\ uses[c] > 0 => /\ uses[c] = 1 /\ row # c /\ c <= issued
                          /\ \A q \in Doing("reset", c) : request[q].pc # "write"

\* The block lasts as long as the tokens it was set for, and a refresh that began with a
\* revoked token is still before the check that will refuse it.
Revoking ==
    /\ revoked \subseteq block.covers
    /\ revoked # {} => block.set
    /\ \A q \in Requests : request[q].does = "refresh" /\ request[q].revoked =>
          \/ request[q].pc = "burned?" /\ request[q].arg \in burned \cup revoked
          \/ request[q].pc = "blocked?" /\ request[q].arg \in revoked

\* The code asked for last is in the row until it is used or its row is emptied.
Storing == issued = 0 \/ row = issued \/ uses[issued] > 0 \/ overtaken

SessionsInv == TypeOK /\ Referring /\ Rotating /\ Spending /\ Revoking /\ Storing

-----------------------------------------------------------------------------
(***************************************************************************)
(* What a step does to the requests.                                       *)
(***************************************************************************)
\* The requests of a kind go on as they are, or end.
Stay(kind) ==
    \A p \in Requests : request'[p].does = kind => request'[p] = request[p]

\* The request q goes to pc.
LEMMA GotoMoves ==
    ASSUME TypeOK, NEW q \in Requests, NEW pc \in Pcs, Goto(q, pc)
    PROVE  /\ request' \in [Requests -> Request]
           /\ \A p \in Requests \ {q} : request'[p] = request[p]
           /\ request'[q].does = request[q].does /\ request'[q].arg = request[q].arg
           /\ request'[q].revoked = request[q].revoked /\ request'[q].pc = pc
           /\ \A kind \in Kinds \ {request[q].does} : Stay(kind)
<1>1. request \in [Requests -> Request]
  BY DEF TypeOK
<1>2. request' = [request EXCEPT ![q] = [request[q] EXCEPT !.pc = pc]]
  BY <1>1 DEF Goto, Request
<1>3. /\ request[q] \in Request /\ [request[q] EXCEPT !.pc = pc] \in Request
      /\ [request[q] EXCEPT !.pc = pc].does = request[q].does
      /\ [request[q] EXCEPT !.pc = pc].arg = request[q].arg
      /\ [request[q] EXCEPT !.pc = pc].revoked = request[q].revoked
      /\ [request[q] EXCEPT !.pc = pc].pc = pc
  BY <1>1 DEF Request, Pcs
<1> QED BY <1>1, <1>2, <1>3 DEF Stay

\* The request q ends.
LEMMA EndMoves ==
    ASSUME TypeOK, NEW q \in Requests, End(q)
    PROVE  /\ request' \in [Requests -> Request]
           /\ \A p \in Requests \ {q} : request'[p] = request[p]
           /\ request'[q].does = "nothing"
           /\ \A kind \in Kinds \ {"nothing"} : Stay(kind)
<1>1. Idle \in Request /\ Idle.does = "nothing"
  BY SessionsAssumption DEF Idle, Request
<1>2. request \in [Requests -> Request] /\ request' = [request EXCEPT ![q] = Idle]
  BY DEF End, TypeOK
<1> QED BY <1>1, <1>2 DEF Stay

\* The request q begins; nobody was doing anything there.
LEMMA BeginMoves ==
    ASSUME TypeOK, NEW q \in Requests, NEW does \in Kinds, NEW pc \in Pcs,
           NEW arg \in 0..(MaxTokens + MaxCodes), NEW stale \in BOOLEAN,
           Begin(q, does, pc, arg, stale)
    PROVE  /\ request' \in [Requests -> Request]
           /\ \A p \in Requests \ {q} : request'[p] = request[p]
           /\ request[q].does = "nothing"
           /\ request'[q].does = does /\ request'[q].arg = arg
           /\ request'[q].revoked = stale /\ request'[q].pc = pc
           /\ \A kind \in Kinds \ {does} : Stay(kind)
<1> DEFINE new == [does |-> does, pc |-> pc, arg |-> arg, revoked |-> stale]
<1>1. request \in [Requests -> Request] /\ request' = [request EXCEPT ![q] = new]
  BY DEF Begin, TypeOK
<1>2. new \in Request /\ new.does = does /\ new.pc = pc /\ new.arg = arg /\ new.revoked = stale
  BY DEF Request, Kinds, Pcs
<1>3. request[q].does = "nothing"
  BY DEF Begin, Idle
<1> QED BY <1>1, <1>2, <1>3 DEF Stay

\* A token is minted: another index, and its own text or one that is valid.
LEMMA MintAdds ==
    ASSUME TypeOK, NEW from \in 0..MaxTokens, Mint(from)
    PROVE  /\ tokens' \in Seq([from: 0..MaxTokens, text: Tokens]) /\ Len(tokens') <= MaxTokens
           /\ Len(tokens) + 1 \in Tokens \ Minted
           /\ Minted' = Minted \cup {Len(tokens) + 1}
           /\ \A s \in Minted : tokens'[s] = tokens[s]
           /\ tokens'[Len(tokens) + 1].from = from
           /\ valid \subseteq valid' /\ valid' \subseteq valid \cup {Len(tokens) + 1}
           /\ valid' \subseteq {Text(t) : t \in Minted}'
<1>1. /\ tokens \in Seq([from: 0..MaxTokens, text: Tokens])
      /\ Len(tokens) \in Nat /\ Len(tokens) < MaxTokens /\ MaxTokens \in Nat
      /\ Minted = 1..Len(tokens)
  BY SessionsAssumption DEF TypeOK, Mint, Minted
<1>2. Len(tokens) + 1 \in Tokens \ Minted
  BY <1>1 DEF Tokens
<1>3. PICK text \in {Len(tokens) + 1} \cup {Text(t) : t \in Minted \ 1..(Len(tokens) - 1)} :
        /\ text \in valid \/ text = Len(tokens) + 1
        /\ tokens' = Append(tokens, [from |-> from, text |-> text])
        /\ valid' = valid \cup {text}
  BY DEF Mint
<1>4. text \in Tokens
  <2>1. ASSUME NEW t \in Minted PROVE Text(t) \in Tokens
    <3>1. tokens[t] \in [from: 0..MaxTokens, text: Tokens]
      BY <1>1, ElementOfSeq
    <3> QED BY <3>1 DEF Text
  <2> QED BY <1>2, <1>3, <2>1
<1> DEFINE new == [from |-> from, text |-> text]
<1>5. new \in [from: 0..MaxTokens, text: Tokens]
  BY <1>4
<1>6. /\ tokens' \in Seq([from: 0..MaxTokens, text: Tokens])
      /\ Len(tokens') = Len(tokens) + 1
      /\ \A s \in Minted : tokens'[s] = tokens[s]
      /\ tokens'[Len(tokens) + 1] = new
  BY <1>1, <1>3, <1>5, AppendProperties
<1>7. Minted' = Minted \cup {Len(tokens) + 1}
  BY <1>1, <1>6 DEF Minted
<1>8. valid' \subseteq {Text(t) : t \in Minted}'
  <2>1. ASSUME NEW v \in valid PROVE \E t \in Minted' : tokens'[t].text = v
    <3>1. PICK t \in Minted : Text(t) = v
      BY DEF TypeOK
    <3> QED BY <1>6, <1>7, <3>1 DEF Text
  <2>2. Len(tokens) + 1 \in Minted' /\ tokens'[Len(tokens) + 1].text = text
    BY <1>6, <1>7
  <2> QED BY <1>3, <2>1, <2>2 DEF Text
<1>9. new.from = from /\ Len(tokens') <= MaxTokens
  BY <1>1, <1>6
<1>10. valid \subseteq valid' /\ valid' \subseteq valid \cup {Len(tokens) + 1}
  BY <1>3
<1> HIDE DEF new
<1> QED BY <1>2, <1>6, <1>7, <1>8, <1>9, <1>10

\* Nothing begins: the requests go on or end.
Ongoing ==
    /\ request' \in [Requests -> Request]
    /\ \A p \in Requests : request'[p].does # "nothing" =>
          /\ request'[p].does = request[p].does /\ request'[p].arg = request[p].arg
          /\ request'[p].revoked = request[p].revoked

\* The step of a request that has begun.
LEMMA StepIsOngoing ==
    ASSUME TypeOK, NEW q \in Requests, (\E pc \in Pcs : Goto(q, pc)) \/ End(q)
    PROVE  Ongoing
<1>1. CASE End(q)
  BY <1>1, EndMoves DEF Ongoing
<1>2. ASSUME NEW pc \in Pcs, Goto(q, pc) PROVE Ongoing
  BY <1>2, GotoMoves DEF Ongoing
<1> QED BY <1>1, <1>2

\* The step of a request of another kind, or its end.
LEMMA OthersStay ==
    ASSUME TypeOK, NEW q \in Requests, NEW kind \in Kinds \ {"nothing"},
           End(q) \/ (request[q].does # kind /\ \E pc \in Pcs : Goto(q, pc))
    PROVE  Stay(kind)
<1>1. CASE End(q)
  BY <1>1, EndMoves
<1>2. ASSUME request[q].does # kind, NEW pc \in Pcs, Goto(q, pc) PROVE Stay(kind)
  BY <1>2, GotoMoves DEF Stay
<1> QED BY <1>1, <1>2

\* What refers to tokens and codes still does when nothing begins.
LEMMA OngoingRefers ==
    ASSUME Referring, Ongoing, UNCHANGED <<tokens, valid>>, issued' = issued
    PROVE  Referring'
BY DEF Referring, Ongoing, Minted

-----------------------------------------------------------------------------
(***************************************************************************)
(* Types and references.                                                   *)
(***************************************************************************)
\* A token minted after an existing one, or after none, keeps the references.
LEMMA MintRefers ==
    ASSUME TypeOK, Referring, NEW from \in Minted \cup {0}, Mint(from)
    PROVE  /\ valid' \subseteq Minted'
           /\ \A s \in Minted' : tokens'[s].from \in Minted' \cup {0}
<1>1. from \in 0..MaxTokens
  BY SessionsAssumption DEF TypeOK, Minted
<1> QED BY <1>1, MintAdds DEF Referring

\* Every step preserves types and references.
LEMMA TypesStep ==
    ASSUME TypeOK, Referring, [Next]_vars
    PROVE  TypeOK' /\ Referring'
<1> USE SessionsAssumption
<1>0. /\ MaxTokens \in Nat /\ MaxCodes \in Nat /\ MaxBegun \in Nat
      /\ Minted \subseteq Tokens /\ valid \subseteq Tokens
      /\ Tokens \subseteq 0..MaxTokens
      /\ Tokens \subseteq 0..(MaxTokens + MaxCodes) /\ Codes \subseteq 0..(MaxTokens + MaxCodes)
  <2>1. MaxTokens \in Nat /\ MaxCodes \in Nat /\ MaxBegun \in Nat
    OBVIOUS
  <2>2. Minted \subseteq Tokens
    BY DEF TypeOK, Minted, Tokens
  <2>3. /\ Tokens \subseteq 0..MaxTokens /\ Tokens \subseteq 0..(MaxTokens + MaxCodes)
        /\ Codes \subseteq 0..(MaxTokens + MaxCodes)
    BY <2>1 DEF Tokens, Codes
  <2> QED BY <2>1, <2>2, <2>3 DEF Referring
<1>1. CASE Login
  <2>1. Mint(0) /\ 0 \in 0..MaxTokens
    BY <1>0, <1>1 DEF Login
  <2>2. Referring'
    BY <1>1, <2>1, MintAdds, MintRefers DEF Login, Referring
  <2> QED BY <1>1, <2>1, <2>2, MintAdds DEF Login, TypeOK, history
<1>2. CASE BlockExpires
  BY <1>2 DEF BlockExpires, TypeOK, Referring, history, Text, Minted
<1>3. ASSUME NEW t \in valid, Logout(t) PROVE TypeOK' /\ Referring'
  BY <1>3 DEF Logout, TypeOK, Referring, history, Text, Minted
<1>4. ASSUME NEW t \in valid, TokenExpires(t) PROVE TypeOK' /\ Referring'
  <2>1. TypeOK'
    BY <1>4 DEF TokenExpires, TypeOK, Text, Minted
  <2>2. Referring'
    BY <1>4 DEF TokenExpires, Referring, Doing, Minted
  <2> QED BY <2>1, <2>2
<1>5. ASSUME NEW c \in Codes, KeyExpires(c) PROVE TypeOK' /\ Referring'
  BY <1>5 DEF KeyExpires, TypeOK, Referring, history, Text, Minted
<1>6. ASSUME NEW q \in Requests, NEW t \in Minted, RefreshBegin(q, t) PROVE TypeOK' /\ Referring'
  <2> DEFINE stale == t \in revoked \cup burned
  <2>0. Begin(q, "refresh", "burned?", t, stale) /\ stale \in BOOLEAN
    BY <1>6 DEF RefreshBegin
  <2>1. t \in Tokens /\ t \in valid /\ t \in 0..(MaxTokens + MaxCodes)
    BY <1>0, <1>6 DEF RefreshBegin
  <2>2. /\ request' \in [Requests -> Request]
        /\ \A p \in Requests \ {q} : request'[p] = request[p]
        /\ request'[q].does = "refresh" /\ request'[q].arg = t
    <3> HIDE DEF stale
    <3> QED BY <2>0, <2>1, BeginMoves DEF Kinds, Pcs
  <2>3. Referring'
    BY <1>6, <2>1, <2>2 DEF RefreshBegin, Referring, Minted
  <2>4. begun' \in 0..MaxBegun
    BY <1>0, <2>0 DEF Begin, TypeOK
  <2>5. rivals' \in [tokens: SUBSET Tokens, codes: SUBSET Codes]
    BY <1>6, <2>1 DEF RefreshBegin, TypeOK
  <2>6. UNCHANGED <<tokens, valid, burned, block, row, keys, issued, revoked, uses, overtaken>>
    BY <1>6 DEF RefreshBegin
  <2>7. TypeOK'
    BY <2>2, <2>4, <2>5, <2>6 DEF TypeOK, Text, Minted
  <2> QED BY <2>3, <2>7
<1>7. ASSUME NEW q \in Requests,
             CheckBurned(q) \/ CheckBlocked(q) \/ CheckBanned(q) \/ ResetCompare(q) \/ CutShort(q)
      PROVE  TypeOK' /\ Referring'
  <2>1. Ongoing
    BY <1>7, StepIsOngoing
    DEF CheckBurned, CheckBlocked, CheckBanned, ResetCompare, CutShort, Pcs
  <2>2. UNCHANGED <<tokens, valid, burned, block, row, keys, issued, begun,
                    revoked, uses, rivals, overtaken>>
    BY <1>7 DEF CheckBurned, CheckBlocked, CheckBanned, ResetCompare, CutShort, history
  <2>3. Referring'
    BY <2>1, <2>2, OngoingRefers
  <2> QED BY <2>1, <2>2, <2>3 DEF Ongoing, TypeOK, Text, Minted
<1>8. ASSUME NEW q \in Requests, Burn(q) PROVE TypeOK' /\ Referring'
  <2>1. Ongoing
    BY <1>8, StepIsOngoing DEF Burn, Pcs
  <2>2. request[q].arg \in valid
    BY <1>8 DEF Burn, At, Referring
  <2>3. Referring'
    BY <1>8, <2>1, OngoingRefers DEF Burn
  <2> QED BY <1>8, <2>1, <2>2, <2>3 DEF Burn, Ongoing, TypeOK, Text, Minted, history
<1>9. ASSUME NEW q \in Requests, RefreshMint(q) PROVE TypeOK' /\ Referring'
  <2>0. Mint(request[q].arg) /\ request[q].arg \in Minted
    BY <1>9 DEF RefreshMint, At, Referring
  <2>1. request[q].arg \in 0..MaxTokens
    BY <1>0, <2>0
  <2>2. Ongoing
    BY <1>9, StepIsOngoing DEF RefreshMint
  <2>3. Referring'
    BY <1>9, <2>0, <2>1, <2>2, MintAdds, MintRefers DEF RefreshMint, Referring, Ongoing
  <2> QED BY <1>9, <2>0, <2>1, <2>2, <2>3, MintAdds DEF RefreshMint, Ongoing, TypeOK, history
<1>10. ASSUME NEW q \in Requests, ForgotWrite(q) PROVE TypeOK' /\ Referring'
  <2>0. Begin(q, "forgot", "key", issued + 1, FALSE) /\ issued' = issued + 1 /\ issued < MaxCodes
    BY <1>10 DEF ForgotWrite
  <2>1. /\ issued \in Nat /\ issued' \in 0..MaxCodes
        /\ issued + 1 \in Codes /\ issued + 1 \in 0..(MaxTokens + MaxCodes)
    BY <1>0, <2>0 DEF TypeOK, Codes
  <2>2. /\ request' \in [Requests -> Request]
        /\ \A p \in Requests \ {q} : request'[p] = request[p]
        /\ request'[q].does = "forgot" /\ request'[q].arg = issued + 1
    BY <2>0, <2>1, BeginMoves DEF Kinds, Pcs
  <2>3. Referring'
    BY <1>10, <2>0, <2>1, <2>2 DEF ForgotWrite, Referring, Minted
  <2>4. begun' \in 0..MaxBegun
    BY <1>0, <2>0 DEF Begin, TypeOK
  <2> QED BY <1>10, <2>0, <2>1, <2>2, <2>3, <2>4 DEF ForgotWrite, TypeOK, Text, Minted, history
<1>11. ASSUME NEW q \in Requests, ForgotKey(q) PROVE TypeOK' /\ Referring'
  <2>1. Ongoing /\ request[q].arg \in 1..issued
    BY <1>11, StepIsOngoing DEF ForgotKey, At, Referring
  <2>2. Referring'
    BY <1>11, <2>1, OngoingRefers DEF ForgotKey
  <2>3. keys' \subseteq 1..issued'
    BY <1>11, <2>1 DEF ForgotKey, TypeOK
  <2> QED BY <1>11, <2>1, <2>2, <2>3 DEF ForgotKey, Ongoing, TypeOK, Text, Minted, history
<1>12. ASSUME NEW q \in Requests, NEW c \in Codes, ResetBegin(q, c) PROVE TypeOK' /\ Referring'
  <2>1. /\ Begin(q, "reset", "row?", c, FALSE)
        /\ c \in 1..issued /\ c \in 0..(MaxTokens + MaxCodes)
    BY <1>0, <1>12 DEF ResetBegin, TypeOK
  <2>2. /\ request' \in [Requests -> Request]
        /\ \A p \in Requests \ {q} : request'[p] = request[p]
        /\ request'[q].does = "reset" /\ request'[q].arg = c
    BY <2>1, BeginMoves DEF Kinds, Pcs
  <2>3. Referring'
    BY <1>12, <2>1, <2>2 DEF ResetBegin, Referring, Minted
  <2>4. begun' \in 0..MaxBegun
    BY <1>0, <2>1 DEF Begin, TypeOK
  <2>5. rivals' \in [tokens: SUBSET Tokens, codes: SUBSET Codes]
    BY <1>12 DEF ResetBegin, TypeOK
  <2>6. UNCHANGED <<tokens, valid, burned, block, row, keys, issued, revoked, uses, overtaken>>
    BY <1>12 DEF ResetBegin
  <2>7. TypeOK'
    BY <2>2, <2>4, <2>5, <2>6 DEF TypeOK, Text, Minted
  <2> QED BY <2>3, <2>7
<1>13. ASSUME NEW q \in Requests, ResetWrite(q) PROVE TypeOK' /\ Referring'
  <2>1. Goto(q, "delete") /\ "delete" \in Pcs
    BY <1>13 DEF ResetWrite, Pcs
  <2>2. Ongoing
    BY <2>1, StepIsOngoing
  <2>3. request[q].arg \in Codes
    <3>1. request[q].arg \in 1..issued
      BY <1>13 DEF ResetWrite, At, Referring
    <3>2. issued \in 0..MaxCodes
      BY DEF TypeOK
    <3> QED BY <1>0, <3>1, <3>2 DEF Codes
  <2>4. UNCHANGED <<tokens, valid, burned, block, keys, issued, begun, revoked, rivals>>
    BY <1>13 DEF ResetWrite
  <2>5. Referring'
    BY <2>2, <2>4, OngoingRefers
  <2>6. uses' \in [Codes -> Nat] /\ row' \in 0..issued' /\ overtaken' \in BOOLEAN
    BY <1>13, <2>3 DEF ResetWrite, TypeOK
  <2> QED BY <2>2, <2>4, <2>5, <2>6 DEF Ongoing, TypeOK, Text, Minted
<1>14. ASSUME NEW q \in Requests, ResetDelete(q) PROVE TypeOK' /\ Referring'
  <2>1. Ongoing
    BY <1>14, StepIsOngoing DEF ResetDelete, Pcs
  <2>2. Referring'
    BY <1>14, <2>1, OngoingRefers DEF ResetDelete
  <2>3. keys' \subseteq 1..issued'
    BY <1>14 DEF ResetDelete, TypeOK
  <2> QED BY <1>14, <2>1, <2>2, <2>3 DEF ResetDelete, Ongoing, TypeOK, Text, Minted, history
<1>15. ASSUME NEW q \in Requests, UpgradeWrite(q) PROVE TypeOK' /\ Referring'
  <2>0. 0 \in 0..(MaxTokens + MaxCodes)
    BY <1>0
  <2>1. Begin(q, "upgrade", "block", 0, FALSE)
    BY <1>15 DEF UpgradeWrite
  <2>2. /\ request' \in [Requests -> Request]
        /\ \A p \in Requests \ {q} : request'[p] = request[p]
        /\ request'[q].does = "upgrade"
    BY <2>0, <2>1, BeginMoves DEF Kinds, Pcs
  <2>3. Referring'
    BY <1>15, <2>2 DEF UpgradeWrite, Referring, Minted
  <2>4. begun' \in 0..MaxBegun
    BY <1>0, <2>1 DEF Begin, TypeOK
  <2> QED BY <1>15, <2>2, <2>3, <2>4 DEF UpgradeWrite, TypeOK, Text, Minted, history
<1>16. ASSUME NEW q \in Requests, Block(q) PROVE TypeOK' /\ Referring'
  <2>1. Ongoing
    BY <1>16, StepIsOngoing DEF Block
  <2>2. Referring'
    BY <1>16, <2>1, OngoingRefers DEF Block
  <2> QED BY <1>16, <2>1, <2>2 DEF Block, Ongoing, TypeOK, Text, Minted
<1>17. CASE UNCHANGED vars
  BY <1>17 DEF vars, TypeOK, Referring, Text, Minted
<1> QED BY <1>1, <1>2, <1>3, <1>4, <1>5, <1>6, <1>7, <1>8, <1>9, <1>10, <1>11, <1>12, <1>13,
           <1>14, <1>15, <1>16, <1>17 DEF Next

-----------------------------------------------------------------------------
(***************************************************************************)
(* Reset codes.                                                            *)
(***************************************************************************)
\* Steps that are no step of a reset or of a request for a code.
LEMMA SpendingStays ==
    ASSUME Spending, UNCHANGED <<row, issued, uses>>, rivals'.codes = rivals.codes, Stay("reset")
    PROVE  Spending'
<1>1. \A c \in Codes : /\ Doing("reset", c)' \subseteq Doing("reset", c)
                        /\ \A q \in Doing("reset", c)' : request'[q] = request[q]
  BY DEF Doing, Stay
<1> QED BY <1>1 DEF Spending

\* Every step preserves what is said of the codes.
LEMMA SpendingStep ==
    ASSUME TypeOK, Referring, Spending, [Next]_vars
    PROVE  Spending'
<1>1. CASE Login \/ BlockExpires \/ UNCHANGED vars
           \/ (\E t \in valid : Logout(t) \/ TokenExpires(t))
           \/ (\E c \in Codes : KeyExpires(c))
  <2>1. UNCHANGED <<row, issued, uses, rivals, request>>
    BY <1>1 DEF Login, BlockExpires, Logout, TokenExpires, KeyExpires, vars, history
  <2>2. Stay("reset")
    BY <2>1 DEF Stay
  <2> QED BY <2>1, <2>2, SpendingStays
<1>2. ASSUME NEW q \in Requests,
             \/ CheckBurned(q) \/ CheckBlocked(q) \/ CheckBanned(q) \/ Burn(q) \/ RefreshMint(q)
             \/ ForgotKey(q) \/ Block(q) \/ CutShort(q)
      PROVE  Spending'
  <2>1. UNCHANGED <<row, issued, uses, rivals>>
    BY <1>2 DEF CheckBurned, CheckBlocked, CheckBanned, Burn, RefreshMint, ForgotKey, Block,
                CutShort, history
  <2>2. Stay("reset")
    BY <1>2, OthersStay
    DEF CheckBurned, CheckBlocked, CheckBanned, Burn, RefreshMint, ForgotKey, Block, CutShort,
        At, Kinds, Pcs
  <2> QED BY <2>1, <2>2, SpendingStays
<1>3. ASSUME NEW q \in Requests, NEW t \in Minted, RefreshBegin(q, t) PROVE Spending'
  <2>1. Stay("reset")
    BY <1>3 DEF RefreshBegin, Begin, Stay, TypeOK
  <2>2. rivals'.codes = rivals.codes
    BY <1>3 DEF RefreshBegin, TypeOK
  <2> QED BY <1>3, <2>1, <2>2, SpendingStays DEF RefreshBegin
<1>4. ASSUME NEW q \in Requests, UpgradeWrite(q) PROVE Spending'
  <2>1. Stay("reset")
    BY <1>4 DEF UpgradeWrite, Begin, Stay, TypeOK
  <2> QED BY <1>4, <2>1, SpendingStays DEF UpgradeWrite, history
<1>5. ASSUME NEW q \in Requests, ForgotWrite(q) PROVE Spending'
  <2>1. Stay("reset")
    BY <1>5 DEF ForgotWrite, Begin, Stay, TypeOK
  <2>2. \A c \in Codes : /\ Doing("reset", c)' \subseteq Doing("reset", c)
                          /\ \A p \in Doing("reset", c)' : request'[p] = request[p]
    BY <2>1 DEF Doing, Stay
  <2>3. /\ row' = issued + 1 /\ issued' = issued + 1 /\ issued \in Nat
        /\ uses' = uses /\ rivals' = rivals
    BY <1>5, SessionsAssumption DEF ForgotWrite, history, TypeOK
  <2>4. \A c \in Codes : c <= issued => c <= issued' /\ row' # c
    BY <2>3, SessionsAssumption DEF Codes
  <2> QED BY <2>2, <2>3, <2>4 DEF Spending
<1>6. ASSUME NEW q \in Requests, NEW d \in Codes, ResetBegin(q, d) PROVE Spending'
  <2>1. /\ \A p \in Requests \ {q} : request'[p] = request[p]
        /\ request[q].does = "nothing"
        /\ request'[q].does = "reset" /\ request'[q].arg = d /\ request'[q].pc = "row?"
    BY <1>6 DEF ResetBegin, Begin, TypeOK, Idle
  <2>2. /\ \A c \in Codes \ {d} : Doing("reset", c)' = Doing("reset", c)
        /\ Doing("reset", d)' = Doing("reset", d) \cup {q}
        /\ \A p \in Requests : request'[p].pc = "write" => request[p] = request'[p]
    BY <2>1 DEF Doing
  <2>3. /\ rivals.codes \subseteq rivals'.codes
        /\ d \notin rivals'.codes => Doing("reset", d) = {}
    BY <1>6 DEF ResetBegin, TypeOK
  <2>4. UNCHANGED <<row, issued, uses>>
    BY <1>6 DEF ResetBegin
  <2> QED BY <2>2, <2>3, <2>4 DEF Spending, Doing
<1>7. ASSUME NEW q \in Requests, ResetCompare(q) PROVE Spending'
  <2>1. UNCHANGED <<row, issued, uses, rivals>>
    BY <1>7 DEF ResetCompare, history
  <2>2. CASE End(q)
    BY <2>1, <2>2, OthersStay, SpendingStays DEF Kinds
  <2>3. CASE row = request[q].arg /\ Goto(q, "write")
    <3>1. /\ \A p \in Requests \ {q} : request'[p] = request[p]
          /\ request'[q].does = "reset" /\ request[q].does = "reset"
          /\ request'[q].arg = request[q].arg
      BY <1>7, <2>3, GotoMoves DEF ResetCompare, At, Pcs
    <3>2. \A c \in Codes : Doing("reset", c)' = Doing("reset", c)
      BY <3>1 DEF Doing
    <3> QED BY <2>1, <2>3, <3>1, <3>2 DEF Spending, Doing
  <2> QED BY <1>7, <2>2, <2>3 DEF ResetCompare
<1>8. ASSUME NEW q \in Requests, ResetWrite(q) PROVE Spending'
  <2> DEFINE d == request[q].arg
  <2>1. /\ \A p \in Requests \ {q} : request'[p] = request[p]
        /\ request'[q].does = "reset" /\ request[q].does = "reset" /\ request[q].pc = "write"
        /\ request'[q].arg = d /\ request'[q].pc = "delete"
    BY <1>8, GotoMoves DEF ResetWrite, At, Pcs
  <2>2. \A c \in Codes : Doing("reset", c)' = Doing("reset", c)
    BY <2>1 DEF Doing
  <2>3. d \in Codes /\ d <= issued
    BY <2>1, SessionsAssumption DEF Referring, TypeOK, Codes
  <2>4. /\ row' = 0 /\ issued' = issued /\ rivals' = rivals
        /\ uses' = [uses EXCEPT ![d] = @ + 1] /\ uses \in [Codes -> Nat]
    BY <1>8 DEF ResetWrite, TypeOK
  <2>5. ASSUME NEW c \in Codes \ rivals.codes, c = d
        PROVE  uses'[c] = 1 /\ \A p \in Doing("reset", c)' : request'[p].pc # "write"
    <3>1. q \in Doing("reset", c) /\ uses[c] = 0
      BY <2>1, <2>4, <2>5 DEF Doing, Spending
    <3>2. \A p \in Doing("reset", c)' : p = q
      BY <2>2, <3>1 DEF Spending
    <3> QED BY <2>1, <2>4, <2>5, <3>1, <3>2
  <2>6. ASSUME NEW c \in Codes \ rivals.codes, c # d
        PROVE  /\ uses'[c] = uses[c]
               /\ \A p \in Doing("reset", c) : request'[p] = request[p]
    BY <2>1, <2>4, <2>6 DEF Doing
  <2>7. 0 \notin Codes
    BY SessionsAssumption DEF Codes
  <2> QED BY <2>2, <2>3, <2>4, <2>5, <2>6, <2>7 DEF Spending
<1>9. ASSUME NEW q \in Requests, ResetDelete(q) PROVE Spending'
  <2>1. /\ \A p \in Requests \ {q} : request'[p] = request[p]
        /\ request'[q].does = request[q].does /\ request'[q].arg = request[q].arg
        /\ request'[q].pc = "block"
    BY <1>9, GotoMoves DEF ResetDelete, Pcs
  <2>2. \A c \in Codes : Doing("reset", c)' = Doing("reset", c)
    BY <2>1 DEF Doing
  <2>3. UNCHANGED <<row, issued, uses, rivals>>
    BY <1>9 DEF ResetDelete, history
  <2> QED BY <2>1, <2>2, <2>3 DEF Spending, Doing
<1> QED BY <1>1, <1>2, <1>3, <1>4, <1>5, <1>6, <1>7, <1>8, <1>9 DEF Next

-----------------------------------------------------------------------------
(***************************************************************************)
(* Rotation of refresh tokens.                                             *)
(***************************************************************************)
\* Steps that are no step of a refresh and mint nothing.
LEMMA RotatingStays ==
    ASSUME Rotating, tokens' = tokens, valid' = valid, burned \subseteq burned',
           rivals'.tokens = rivals.tokens, Stay("refresh")
    PROVE  Rotating'
<1>1. \A t \in Tokens : /\ Doing("refresh", t)' \subseteq Doing("refresh", t)
                         /\ \A q \in Doing("refresh", t)' : request'[q] = request[q]
  BY DEF Doing, Stay
<1> QED BY <1>1 DEF Rotating, Minted

\* A step of one refresh that mints nothing and keeps to the blacklist.
LEMMA RefreshRotates ==
    ASSUME Rotating, NEW q \in Requests,
           tokens' = tokens, valid' = valid, burned \subseteq burned', rivals' = rivals,
           \A p \in Requests \ {q} : request'[p] = request[p],
           request'[q].does = "refresh", request[q].does = "refresh",
           request'[q].arg = request[q].arg,
           request'[q].pc = "mint" => request[q].arg \in burned',
           \/ request[q].pc # "burned?"
           \/ request[q].arg \in valid \ burned
    PROVE  Rotating'
<1>1. \A t \in Tokens : Doing("refresh", t)' = Doing("refresh", t)
  BY DEF Doing
<1>2. ASSUME NEW t \in Tokens \ rivals.tokens, q \in Doing("refresh", t)
      PROVE  \A s \in Minted : tokens[s].from # t
  BY <1>2 DEF Rotating, Doing
<1>3. \A t \in Tokens : \A p \in Doing("refresh", t) :
        request'[p] = request[p] \/ (p = q /\ t = request[q].arg)
  BY DEF Doing
<1> QED BY <1>1, <1>2, <1>3 DEF Rotating, Minted

\* A token is minted from `from`, which nobody has exchanged and which is burned, or from
\* none; whoever minted it ends.
LEMMA MintRotates ==
    ASSUME TypeOK, Referring, Rotating, NEW from \in Minted \cup {0}, Mint(from),
           burned' = burned, rivals' = rivals, Stay("refresh"),
           from \in Tokens \ rivals.tokens =>
             /\ from \in burned
             /\ Doing("refresh", from)' = {}
             /\ \A s \in Minted : tokens[s].from # from
    PROVE  Rotating'
<1> DEFINE new == Len(tokens) + 1
<1>0. from \in 0..MaxTokens
  BY SessionsAssumption DEF TypeOK, Minted
<1>1. /\ Minted' = Minted \cup {new} /\ new \notin Minted
      /\ \A s \in Minted : tokens'[s] = tokens[s]
      /\ tokens'[new].from = from
      /\ valid' \subseteq valid \cup {new}
  BY <1>0, MintAdds
<1>2. \A t \in Tokens : /\ Doing("refresh", t)' \subseteq Doing("refresh", t)
                         /\ \A q \in Doing("refresh", t)' : request'[q] = request[q]
  BY DEF Doing, Stay
<1>3. ASSUME NEW t \in Tokens \ rivals.tokens
      PROVE  /\ \A r, s \in Minted' : tokens'[r].from = t /\ tokens'[s].from = t => r = s
             /\ \A s \in Minted' : tokens'[s].from = t =>
                   /\ t \in valid' => t \in burned
                   /\ \A q \in Doing("refresh", t)' : request'[q].pc = "burned?"
  <2> HIDE DEF new
  <2>1. CASE t = from
    <3>1. \A s \in Minted' : tokens'[s].from = t => s = new
      BY <1>1, <1>3, <2>1
    <3> QED BY <1>3, <2>1, <3>1
  <2>2. CASE t # from
    <3>1. \A s \in Minted' : tokens'[s].from = t => s \in Minted /\ tokens[s].from = t
      BY <1>1, <2>2
    <3>2. (\E s \in Minted' : tokens'[s].from = t) => t # new
      BY <1>0, <1>1, <1>3, <3>1, SessionsAssumption DEF Referring, Tokens
    <3> QED BY <1>1, <1>2, <1>3, <3>1, <3>2 DEF Rotating
  <2> QED BY <2>1, <2>2
<1> QED BY <1>2, <1>3 DEF Rotating

\* Every step preserves what is said of the tokens.
LEMMA RotatingStep ==
    ASSUME TypeOK, Referring, Rotating, [Next]_vars
    PROVE  Rotating'
<1>0. 0 \notin Tokens
  BY SessionsAssumption DEF Tokens
<1>1. CASE BlockExpires \/ UNCHANGED vars \/ (\E t \in valid : Logout(t))
           \/ (\E c \in Codes : KeyExpires(c))
  <2>1. UNCHANGED <<tokens, valid, rivals, request>> /\ burned \subseteq burned'
    BY <1>1 DEF BlockExpires, Logout, KeyExpires, vars, history
  <2>2. Stay("refresh")
    BY <2>1 DEF Stay
  <2> QED BY <2>1, <2>2, RotatingStays
<1>2. ASSUME NEW q \in Requests,
             \/ ForgotKey(q) \/ ResetCompare(q) \/ ResetWrite(q) \/ ResetDelete(q)
             \/ Block(q) \/ CutShort(q)
      PROVE  Rotating'
  <2>1. UNCHANGED <<tokens, valid, burned, rivals>>
    BY <1>2 DEF ForgotKey, ResetCompare, ResetWrite, ResetDelete, Block, CutShort, history
  <2>2. Stay("refresh")
    BY <1>2, OthersStay
    DEF ForgotKey, ResetCompare, ResetWrite, ResetDelete, Block, CutShort, At, Kinds, Pcs
  <2> QED BY <2>1, <2>2, RotatingStays
<1>3. ASSUME NEW q \in Requests,
             UpgradeWrite(q) \/ ForgotWrite(q) \/ \E c \in Codes : ResetBegin(q, c)
      PROVE  Rotating'
  <2>1. Stay("refresh")
    BY <1>3 DEF UpgradeWrite, ForgotWrite, ResetBegin, Begin, Stay, TypeOK
  <2>2. UNCHANGED <<tokens, valid, burned>> /\ rivals'.tokens = rivals.tokens
    BY <1>3 DEF UpgradeWrite, ForgotWrite, ResetBegin, history, TypeOK
  <2> QED BY <2>1, <2>2, RotatingStays
<1>4. ASSUME NEW d \in valid, TokenExpires(d) PROVE Rotating'
  <2>1. /\ UNCHANGED <<tokens, rivals, request>> /\ valid' = valid \ {d}
        /\ burned' = burned \ {d} /\ Doing("refresh", d) = {}
    BY <1>4 DEF TokenExpires
  <2>2. \A t : Doing("refresh", t)' = Doing("refresh", t)
    BY <2>1 DEF Doing
  <2> QED BY <2>1, <2>2 DEF Rotating, Minted
<1>5. CASE Login
  <2>1. Stay("refresh")
    BY <1>5 DEF Login, Stay
  <2> QED BY <1>0, <1>5, <2>1, MintRotates DEF Login, history
<1>6. ASSUME NEW q \in Requests, NEW d \in Minted, RefreshBegin(q, d) PROVE Rotating'
  <2>1. /\ \A p \in Requests \ {q} : request'[p] = request[p]
        /\ request[q].does = "nothing"
        /\ request'[q].does = "refresh" /\ request'[q].arg = d /\ request'[q].pc = "burned?"
    BY <1>6 DEF RefreshBegin, Begin, TypeOK, Idle
  <2>2. /\ \A t \in Tokens \ {d} : Doing("refresh", t)' = Doing("refresh", t)
        /\ Doing("refresh", d)' = Doing("refresh", d) \cup {q}
    BY <2>1 DEF Doing
  <2>3. /\ rivals.tokens \subseteq rivals'.tokens
        /\ d \notin rivals'.tokens => Doing("refresh", d) = {}
    BY <1>6, SessionsAssumption DEF RefreshBegin, TypeOK
  <2>4. UNCHANGED <<tokens, valid, burned>>
    BY <1>6 DEF RefreshBegin
  <2>5. \A t \in Tokens : \A p \in Doing("refresh", t)' :
          \/ p = q /\ t = d
          \/ p \in Doing("refresh", t) /\ request'[p] = request[p]
    BY <2>1 DEF Doing
  <2> QED BY <2>1, <2>2, <2>3, <2>4, <2>5 DEF Rotating, Minted
<1>7. ASSUME NEW q \in Requests, CheckBurned(q) \/ CheckBlocked(q) \/ CheckBanned(q) \/ Burn(q)
      PROVE  Rotating'
  <2>1. /\ UNCHANGED <<tokens, valid, rivals>> /\ burned \subseteq burned'
        /\ request[q].does = "refresh" /\ request[q].arg \in valid
    BY <1>7 DEF CheckBurned, CheckBlocked, CheckBanned, Burn, At, history, Referring
  <2>2. CASE End(q)
    BY <2>1, <2>2, OthersStay, RotatingStays DEF Kinds
  <2>3. ASSUME NEW pc \in Pcs, Goto(q, pc),
               pc = "mint" => request[q].arg \in burned',
               request[q].pc # "burned?" \/ request[q].arg \notin burned
        PROVE  Rotating'
    BY <2>1, <2>3, GotoMoves, RefreshRotates
  <2> QED BY <1>7, <2>2, <2>3 DEF CheckBurned, CheckBlocked, CheckBanned, Burn, At, Pcs
<1>8. ASSUME NEW q \in Requests, RefreshMint(q) PROVE Rotating'
  <2>0. PICK d \in Minted : d = request[q].arg
    BY <1>8 DEF RefreshMint, At, Referring
  <2>1. /\ Mint(d) /\ End(q)
        /\ request[q].does = "refresh" /\ request[q].pc = "mint"
        /\ burned' = burned /\ rivals' = rivals
    BY <1>8, <2>0 DEF RefreshMint, At, history
  <2>2. Stay("refresh") /\ request'[q].does = "nothing"
    BY <2>1, EndMoves, OthersStay DEF Kinds
  <2>3. ASSUME d \in Tokens \ rivals.tokens
        PROVE  /\ d \in burned /\ \A s \in Minted : tokens[s].from # d
               /\ Doing("refresh", d)' = {}
    <3>1. q \in Doing("refresh", d)
      BY <2>0, <2>1 DEF Doing
    <3>2. \A p \in Doing("refresh", d)' : p \in Doing("refresh", d) /\ p # q
      BY <2>2 DEF Doing, Stay
    <3> QED BY <2>1, <2>3, <3>1, <3>2 DEF Rotating
  <2> QED BY <2>1, <2>2, <2>3, MintRotates
<1> QED BY <1>1, <1>2, <1>3, <1>4, <1>5, <1>6, <1>7, <1>8 DEF Next

-----------------------------------------------------------------------------
(***************************************************************************)
(* Revocation.                                                             *)
(***************************************************************************)
\* Steps that neither refresh nor revoke nor let anything expire.
LEMMA RevokingStays ==
    ASSUME Revoking, UNCHANGED <<block, revoked>>, burned \subseteq burned', Stay("refresh")
    PROVE  Revoking'
BY DEF Revoking, Stay

\* Every step preserves what is said of revocation.
LEMMA RevokingStep ==
    ASSUME TypeOK, Referring, Revoking, [Next]_vars
    PROVE  Revoking'
<1>1. CASE UNCHANGED vars \/ Login \/ (\E t \in valid : Logout(t))
           \/ (\E c \in Codes : KeyExpires(c))
  <2>1. UNCHANGED <<block, revoked, request>> /\ burned \subseteq burned'
    BY <1>1 DEF Login, Logout, KeyExpires, vars, history
  <2>2. Stay("refresh")
    BY <2>1 DEF Stay
  <2> QED BY <2>1, <2>2, RevokingStays
<1>2. CASE BlockExpires
  <2>1. revoked = {}
    BY <1>2 DEF BlockExpires, Revoking
  <2> QED BY <1>2, <2>1 DEF BlockExpires, Revoking, history
<1>3. ASSUME NEW t \in valid, TokenExpires(t) PROVE Revoking'
  <2>1. /\ request' = request /\ Doing("refresh", t) = {}
        /\ burned' = burned \ {t} /\ revoked' = revoked \ {t}
        /\ block'.set = block.set /\ block'.covers = block.covers \ {t}
    BY <1>3 DEF TokenExpires, TypeOK
  <2>2. \A q \in Requests : request[q].does = "refresh" => request[q].arg # t
    BY <2>1 DEF Doing
  <2> QED BY <2>1, <2>2 DEF Revoking
<1>4. ASSUME NEW q \in Requests,
             \/ ForgotKey(q) \/ ResetCompare(q) \/ ResetWrite(q) \/ ResetDelete(q)
             \/ RefreshMint(q) \/ CutShort(q)
      PROVE  Revoking'
  <2>1. UNCHANGED <<block, burned, revoked>>
    BY <1>4 DEF ForgotKey, ResetCompare, ResetWrite, ResetDelete, RefreshMint, CutShort, history
  <2>2. Stay("refresh")
    BY <1>4, OthersStay
    DEF ForgotKey, ResetCompare, ResetWrite, ResetDelete, RefreshMint, CutShort, At, Kinds, Pcs
  <2> QED BY <2>1, <2>2, RevokingStays
<1>5. ASSUME NEW q \in Requests,
             UpgradeWrite(q) \/ ForgotWrite(q) \/ \E c \in Codes : ResetBegin(q, c)
      PROVE  Revoking'
  <2>1. Stay("refresh")
    BY <1>5 DEF UpgradeWrite, ForgotWrite, ResetBegin, Begin, Stay, TypeOK
  <2>2. UNCHANGED <<block, burned, revoked>>
    BY <1>5 DEF UpgradeWrite, ForgotWrite, ResetBegin, history
  <2> QED BY <2>1, <2>2, RevokingStays
<1>6. ASSUME NEW q \in Requests, NEW d \in Minted, RefreshBegin(q, d) PROVE Revoking'
  <2>1. /\ \A p \in Requests \ {q} : request'[p] = request[p]
        /\ request'[q].arg = d /\ request'[q].pc = "burned?"
        /\ request'[q].revoked <=> d \in burned \cup revoked
        /\ UNCHANGED <<block, burned, revoked>>
    BY <1>6 DEF RefreshBegin, Begin, TypeOK
  <2> QED BY <2>1 DEF Revoking
<1>7. ASSUME NEW q \in Requests, CheckBurned(q) PROVE Revoking'
  <2>1. UNCHANGED <<block, burned, revoked>> /\ request[q].pc = "burned?"
    BY <1>7 DEF CheckBurned, At, history
  <2>2. CASE End(q)
    BY <2>1, <2>2, OthersStay, RevokingStays DEF Kinds
  <2>3. CASE request[q].arg \notin burned /\ Goto(q, "blocked?")
    BY <2>1, <2>3, GotoMoves DEF Revoking, Pcs
  <2> QED BY <1>7, <2>2, <2>3 DEF CheckBurned
<1>8. ASSUME NEW q \in Requests, CheckBlocked(q) PROVE Revoking'
  <2>1. /\ UNCHANGED <<block, burned, revoked>>
        /\ request[q].does = "refresh" /\ request[q].pc = "blocked?"
    BY <1>8 DEF CheckBlocked, At, history
  <2>2. CASE End(q)
    BY <2>1, <2>2, OthersStay, RevokingStays DEF Kinds
  <2>3. CASE ~block.set /\ Goto(q, "banned?")
    <3>1. ~request[q].revoked
      BY <2>1, <2>3 DEF Revoking
    <3> QED BY <2>1, <2>3, <3>1, GotoMoves DEF Revoking, Pcs
  <2> QED BY <1>8, <2>2, <2>3 DEF CheckBlocked
<1>9. ASSUME NEW q \in Requests, CheckBanned(q) \/ Burn(q) PROVE Revoking'
  <2>1. UNCHANGED <<block, revoked>> /\ burned \subseteq burned'
    BY <1>9 DEF CheckBanned, Burn, history
  <2>2. ~request[q].revoked
    BY <1>9 DEF CheckBanned, Burn, At, Revoking
  <2>3. CASE End(q)
    BY <2>1, <2>3, OthersStay, RevokingStays DEF Kinds
  <2>4. ASSUME NEW pc \in Pcs, Goto(q, pc) PROVE Revoking'
    BY <2>1, <2>2, <2>4, GotoMoves DEF Revoking
  <2> QED BY <1>9, <2>3, <2>4 DEF CheckBanned, Burn, Pcs
<1>10. ASSUME NEW q \in Requests, Block(q) PROVE Revoking'
  <2>1. /\ block'.set = TRUE /\ block'.covers = valid /\ revoked' = valid /\ burned' = burned
        /\ End(q)
    BY <1>10 DEF Block
  <2>2. Stay("refresh")
    BY <2>1, OthersStay DEF Kinds
  <2> QED BY <2>1, <2>2 DEF Revoking, Referring, Stay
<1> QED BY <1>1, <1>2, <1>3, <1>4, <1>5, <1>6, <1>7, <1>8, <1>9, <1>10 DEF Next

-----------------------------------------------------------------------------
\* Every step preserves what is said of the row.
LEMMA StoringStep ==
    ASSUME TypeOK, Referring, Storing, [Next]_vars
    PROVE  Storing'
<1>1. CASE UNCHANGED <<issued, row, uses, overtaken>>
  BY <1>1 DEF Storing
<1>2. ASSUME NEW q \in Requests, ForgotWrite(q) PROVE Storing'
  BY <1>2 DEF ForgotWrite, Storing
<1>3. ASSUME NEW q \in Requests, ResetWrite(q) PROVE Storing'
  <2> DEFINE d == request[q].arg
  <2>1. /\ d \in Codes /\ issued' = issued /\ uses \in [Codes -> Nat] /\ issued \in 0..MaxCodes
        /\ uses' = [uses EXCEPT ![d] = @ + 1]
    BY <1>3, SessionsAssumption DEF ResetWrite, At, Referring, TypeOK, Codes
  <2>2. overtaken' = (overtaken \/ row \notin {0, d})
    BY <1>3 DEF ResetWrite
  <2>3. CASE issued = 0 \/ overtaken
    BY <2>1, <2>2, <2>3 DEF Storing
  <2>4. CASE issued # 0 /\ issued = d
    <3>1. uses'[issued] = uses[issued] + 1 /\ uses[issued] \in Nat
      BY <2>1, <2>4
    <3> QED BY <2>1, <3>1 DEF Storing
  <2>5. CASE issued # 0 /\ issued # d /\ row = issued
    BY <2>2, <2>5 DEF Storing
  <2>6. CASE issued # 0 /\ issued # d /\ uses[issued] > 0
    <3>1. uses'[issued] = uses[issued]
      BY <2>1, <2>6, SessionsAssumption DEF Codes
    <3> QED BY <2>1, <2>6, <3>1 DEF Storing
  <2> QED BY <2>3, <2>4, <2>5, <2>6 DEF Storing
<1>4. ASSUME [Next]_vars,
             ~ \E q \in Requests : ForgotWrite(q) \/ ResetWrite(q)
      PROVE  UNCHANGED <<issued, row, uses, overtaken>>
  BY <1>4
  DEF Next, vars, history, Login, BlockExpires, Logout, TokenExpires, KeyExpires, RefreshBegin,
      CheckBurned, CheckBlocked, CheckBanned, Burn, RefreshMint, ForgotKey, ResetBegin,
      ResetCompare, ResetDelete, UpgradeWrite, Block, CutShort
<1> QED BY <1>1, <1>2, <1>3, <1>4

-----------------------------------------------------------------------------
(***************************************************************************)
(* The theorems.                                                           *)
(***************************************************************************)
\* Nothing is minted, issued or in progress at first.
LEMMA SessionsInvInit == Init => SessionsInv
<1> SUFFICES ASSUME Init PROVE SessionsInv
  OBVIOUS
<1>1. /\ MaxTokens \in Nat /\ MaxCodes \in Nat /\ MaxBegun \in Nat
      /\ Minted = {} /\ Len(tokens) = 0
      /\ tokens \in Seq([from: 0..MaxTokens, text: Tokens])
  BY SessionsAssumption DEF Init, Minted
<1>2. /\ Idle \in Request /\ Idle.does = "nothing"
      /\ \A q \in Requests : request[q] = Idle
      /\ request \in [Requests -> Request]
  BY <1>1 DEF Init, Idle, Request
<1>3. TypeOK
  <2>1. valid = {} /\ burned = {} /\ revoked = {} /\ keys = {}
    BY DEF Init
  <2>2. block \in [set: BOOLEAN, covers: SUBSET valid]
    BY <2>1 DEF Init
  <2>3. issued \in 0..MaxCodes /\ begun \in 0..MaxBegun /\ row \in 0..issued
    BY <1>1 DEF Init
  <2>4. /\ uses \in [Codes -> Nat] /\ overtaken \in BOOLEAN
        /\ rivals \in [tokens: SUBSET Tokens, codes: SUBSET Codes]
    BY DEF Init
  <2> QED BY <1>1, <1>2, <2>1, <2>2, <2>3, <2>4 DEF TypeOK
<1>4. Referring
  BY <1>1, <1>2 DEF Init, Referring
<1>5. Rotating
  BY <1>1, <1>2 DEF Init, Rotating, Doing
<1>6. Spending
  BY <1>2 DEF Init, Spending, Doing
<1>7. Revoking
  BY <1>2 DEF Init, Revoking
<1>8. Storing
  BY DEF Init, Storing
<1> QED BY <1>3, <1>4, <1>5, <1>6, <1>7, <1>8 DEF SessionsInv

\* The strengthening is an invariant.
THEOREM SessionsInvariant == Spec => []SessionsInv
<1>1. SessionsInv /\ [Next]_vars => SessionsInv'
  BY TypesStep, SpendingStep, RotatingStep, RevokingStep, StoringStep DEF SessionsInv
<1> QED BY <1>1, SessionsInvInit, PTL DEF Spec

\* Tokens, blacklists, codes and requests are well typed, and what is burned, blocked or
\* stored was minted or issued.
THEOREM SessionsTypeCorrect == Spec => []TypeOK
<1>1. SessionsInv => TypeOK
  BY DEF SessionsInv
<1> QED BY <1>1, SessionsInvariant, PTL

\* A refresh token has one successor, unless two refreshes of it overlap (refreshTokens
\* burns before it mints).
THEOREM TokensHaveOneSuccessor == Spec => []OneSuccessor
<1>1. SessionsInv => OneSuccessor
  <2> SUFFICES ASSUME SessionsInv, NEW t \in Tokens \ rivals.tokens
               PROVE  Cardinality({s \in Minted : tokens[s].from = t}) <= 1
    BY DEF OneSuccessor
  <2> DEFINE next == {s \in Minted : tokens[s].from = t}
  <2>1. \A r, s \in next : r = s
    BY DEF SessionsInv, Rotating
  <2>2. next = {} => Cardinality(next) = 0
    BY FS_EmptySet
  <2>3. ASSUME next # {} PROVE Cardinality(next) = 1
    <3>1. PICK s \in next : TRUE
      BY <2>3
    <3>2. next = {s}
      BY <2>1, <3>1
    <3>3. Cardinality({s}) = 1
      BY FS_Singleton
    <3> HIDE DEF next
    <3> QED BY <3>2, <3>3
  <2>4. Cardinality(next) <= 1
    <3> HIDE DEF next
    <3> QED BY <2>2, <2>3
  <2> QED BY <2>4
<1> QED BY <1>1, SessionsInvariant, PTL

\* A reset code sets one password, unless two resets present it at the same time
\* (resetPassword empties the row with the write of the password).
THEOREM CodesWorkOnce == Spec => []CodeWorksOnce
<1>1. SessionsInv => CodeWorksOnce
  BY DEF SessionsInv, Spending, CodeWorksOnce, TypeOK
<1> QED BY <1>1, SessionsInvariant, PTL

\* The code asked for last is accepted while its key lives, unless a reset with the former
\* one was past its comparison (forgotPassword overwrites the row).
THEOREM TheLastCodeIsAccepted == Spec => []LastCodeAccepted
<1>1. SessionsInv => LastCodeAccepted
  <2> SUFFICES ASSUME SessionsInv, issued \in keys, uses[issued] = 0
               PROVE  row = issued \/ overtaken
    BY DEF LastCodeAccepted
  <2>1. issued # 0
    BY SessionsAssumption DEF SessionsInv, TypeOK
  <2> QED BY <2>1 DEF SessionsInv, Storing
<1> QED BY <1>1, SessionsInvariant, PTL

\* No refresh that begins with a burned or revoked token mints a successor: both
\* blacklists last as long as the token (refreshBlacklistTtlSeconds).
THEOREM RevocationIsFinal == Spec => RevokedIsFinal
<1>1. SessionsInv /\ [Next]_vars =>
        [\A q \in Requests :
           At(q, "refresh", "mint") /\ tokens' # tokens /\ request'[q] = Idle
             => ~request[q].revoked]_vars
  BY DEF SessionsInv, Revoking, At
<1> QED BY <1>1, SessionsInvariant, PTL DEF Spec, RevokedIsFinal
=============================================================================
