------------------------------ MODULE Sessions ------------------------------
(***************************************************************************)
(* The sessions of one user (modules/auth): refresh tokens that are burned *)
(* and replaced at each refresh, logout, the codes and the completion of a *)
(* password reset, and the revocation of every token of the user by a      *)
(* reset or an upgrade of the account.                                     *)
(*                                                                         *)
(* Time is the order of expiries: refresh tokens and blacklist keys live   *)
(* for the same refreshExpiry, so they expire in the order they were made. *)
(* A token is a signed text without an identifier: two of one user minted  *)
(* in the same second are the same text, and the blacklist knows texts.    *)
(* The checks of a login (see Lockout), mail, cookies and access tokens,   *)
(* which nothing revokes, are left out.                                    *)
(***************************************************************************)
EXTENDS Integers, FiniteSets, Sequences

CONSTANTS
    Requests,  \* the requests in progress at the same time
    MaxTokens, \* refresh tokens minted
    MaxCodes,  \* reset codes asked for
    MaxBegun   \* requests of several steps begun

ASSUME SessionsAssumption == {MaxTokens, MaxCodes, MaxBegun} \subseteq Nat

VARIABLES
    tokens,    \* each refresh token in the order they were minted: got for which text, its text
    valid,     \* the texts that have not expired
    burned,    \* refresh_token:blacklist:<text>
    block,     \* refresh_token:blacklist:user:<user>; which texts were valid when it was set
    row,       \* users.passwordResetToken
    keys,      \* password:reset:<code>
    request,   \* each request in progress
    issued,    \* how many codes there are
    begun,     \* how many requests of several steps there were
    revoked,   \* history: texts that were valid when a block was set
    uses,      \* history: how often each code has set a password
    rivals,    \* history: tokens two refreshes, codes two resets handled at the same time
    overtaken  \* history: a reset wrote the row after another code had been stored there

vars == <<tokens, valid, burned, block, row, keys, request, issued, begun, revoked, uses, rivals, overtaken>>

Tokens == 1..MaxTokens
Codes == 1..MaxCodes
Minted == DOMAIN tokens
Text(t) == tokens[t].text

Idle == [does |-> "nothing", pc |-> "idle", arg |-> 0, revoked |-> FALSE]

\* History: was the token of a refresh revoked or burned already when it began?
Request == [does: {"nothing", "refresh", "forgot", "reset", "upgrade"},
            pc: {"idle", "burned?", "blocked?", "banned?", "refuse", "burn", "mint",
                 "key", "row?", "write", "delete", "block"},
            arg: 0..(MaxTokens + MaxCodes), revoked: BOOLEAN]

\* The types; and only what was minted or issued is burned, stored or used.
TypeOK ==
    /\ tokens \in Seq([from: 0..MaxTokens, text: Tokens]) /\ Len(tokens) <= MaxTokens
    /\ valid \subseteq {Text(t) : t \in Minted}
    /\ burned \subseteq valid /\ revoked \subseteq valid
    /\ block \in [set: BOOLEAN, covers: SUBSET valid]
    /\ issued \in 0..MaxCodes /\ begun \in 0..MaxBegun
    /\ row \in 0..issued /\ keys \subseteq 1..issued
    /\ request \in [Requests -> Request]
    /\ uses \in [Codes -> Nat]
    /\ rivals \in [tokens: SUBSET Tokens, codes: SUBSET Codes]
    /\ overtaken \in BOOLEAN

Init ==
    /\ tokens = <<>> /\ valid = {} /\ burned = {}
    /\ block = [set |-> FALSE, covers |-> {}]
    /\ row = 0 /\ keys = {} /\ issued = 0 /\ begun = 0
    /\ request = [q \in Requests |-> Idle]
    /\ revoked = {} /\ uses = [c \in Codes |-> 0]
    /\ rivals = [tokens |-> {}, codes |-> {}]
    /\ overtaken = FALSE

history == <<revoked, uses, rivals, overtaken>>

At(q, does, pc) == request[q].does = does /\ request[q].pc = pc

Goto(q, pc) == request' = [request EXCEPT ![q].pc = pc]
End(q) == request' = [request EXCEPT ![q] = Idle]

\* A request of several steps begins.
Begin(q, does, pc, arg, stale) ==
    /\ request[q] = Idle
    /\ begun < MaxBegun /\ begun' = begun + 1
    /\ request' = [request EXCEPT ![q] = [does |-> does, pc |-> pc, arg |-> arg,
                                          revoked |-> stale]]

Doing(does, arg) == {q \in Requests : request[q].does = does /\ request[q].arg = arg}

\* generateTokens: another text, or that of the last token when it is of this second.
Mint(from) ==
    /\ Len(tokens) < MaxTokens
    /\ \E text \in {Len(tokens) + 1} \cup {Text(t) : t \in Minted \ 1..(Len(tokens) - 1)} :
         /\ text \in valid \/ text = Len(tokens) + 1
         /\ tokens' = Append(tokens, [from |-> from, text |-> text])
         /\ valid' = valid \cup {text}

\* A login, after its checks; a registration.
Login ==
    /\ Mint(0)
    /\ UNCHANGED <<burned, block, row, keys, request, issued, begun, history>>

-----------------------------------------------------------------------------
(***************************************************************************)
(* refreshTokens and logout.                                               *)
(***************************************************************************)
\* Mutant: an expired token is taken for a valid one.
RefreshAny(q, t) ==
    /\ Begin(q, "refresh", "burned?", t, t \in revoked \cup burned)
    /\ rivals' = [rivals EXCEPT !.tokens = IF Doing("refresh", t) = {} THEN @ ELSE @ \cup {t}]
    /\ UNCHANGED <<tokens, valid, burned, block, row, keys, issued, revoked, uses, overtaken>>

\* The token verifies.
RefreshBegin(q, t) ==
    /\ t \in valid
    /\ Begin(q, "refresh", "burned?", t, t \in revoked \cup burned)
    /\ rivals' = [rivals EXCEPT !.tokens = IF Doing("refresh", t) = {} THEN @ ELSE @ \cup {t}]
    /\ UNCHANGED <<tokens, valid, burned, block, row, keys, issued, revoked, uses, overtaken>>

\* The token-level blacklist.
CheckBurned(q) ==
    /\ At(q, "refresh", "burned?")
    /\ IF request[q].arg \in burned THEN End(q) ELSE Goto(q, "blocked?")
    /\ UNCHANGED <<tokens, valid, burned, block, row, keys, issued, begun, history>>

\* Mutant: the user-level blacklist is written and never read.
CheckNotBlocked(q) ==
    /\ At(q, "refresh", "blocked?")
    /\ Goto(q, "banned?")
    /\ UNCHANGED <<tokens, valid, burned, block, row, keys, issued, begun, history>>

\* The user-level blacklist.
CheckBlocked(q) ==
    /\ At(q, "refresh", "blocked?")
    /\ IF block.set THEN End(q) ELSE Goto(q, "banned?")
    /\ UNCHANGED <<tokens, valid, burned, block, row, keys, issued, begun, history>>

\* A ban, or an operator's accessBlocked, refuses the refresh and burns its token.
CheckBanned(q) ==
    /\ At(q, "refresh", "banned?")
    /\ Goto(q, "burn") \/ Goto(q, "refuse")
    /\ UNCHANGED <<tokens, valid, burned, block, row, keys, issued, begun, history>>

\* Mutant, in place of Burn: the token is minted first and burned afterwards.
MintFirst(q) ==
    \/ /\ At(q, "refresh", "burn")
       /\ Mint(request[q].arg)
       /\ Goto(q, "refuse")
       /\ UNCHANGED <<burned, block, row, keys, issued, begun, history>>
    \/ /\ At(q, "refresh", "refuse")
       /\ burned' = burned \cup {request[q].arg}
       /\ End(q)
       /\ UNCHANGED <<tokens, valid, block, row, keys, issued, begun, history>>

\* revokeRefreshToken, before the next token is minted.
Burn(q) ==
    /\ At(q, "refresh", "burn") \/ At(q, "refresh", "refuse")
    /\ burned' = burned \cup {request[q].arg}
    /\ IF request[q].pc = "burn" THEN Goto(q, "mint") ELSE End(q)
    /\ UNCHANGED <<tokens, valid, block, row, keys, issued, begun, history>>

RefreshMint(q) ==
    /\ At(q, "refresh", "mint")
    /\ Mint(request[q].arg)
    /\ End(q)
    /\ UNCHANGED <<burned, block, row, keys, issued, begun, history>>

Logout(t) ==
    /\ t \in valid
    /\ burned' = burned \cup {t}
    /\ UNCHANGED <<tokens, valid, block, row, keys, request, issued, begun, history>>

-----------------------------------------------------------------------------
(***************************************************************************)
(* forgotPassword and resetPassword.                                       *)
(***************************************************************************)
\* Mutant: a code that is in the row stays there.
ForgotKeepsRow(q) ==
    /\ issued < MaxCodes
    /\ issued' = issued + 1
    /\ row' = IF row = 0 THEN issued + 1 ELSE row
    /\ Begin(q, "forgot", "key", issued + 1, FALSE)
    /\ UNCHANGED <<tokens, valid, burned, block, keys, history>>

\* The row has room for one code: a new one takes the place of the former.
ForgotWrite(q) ==
    /\ issued < MaxCodes
    /\ issued' = issued + 1
    /\ row' = issued + 1
    /\ Begin(q, "forgot", "key", issued + 1, FALSE)
    /\ UNCHANGED <<tokens, valid, burned, block, keys, history>>

ForgotKey(q) ==
    /\ At(q, "forgot", "key")
    /\ keys' = keys \cup {request[q].arg}
    /\ End(q)
    /\ UNCHANGED <<tokens, valid, burned, block, row, issued, begun, history>>

\* The key of the code is there.
ResetBegin(q, c) ==
    /\ c \in keys
    /\ Begin(q, "reset", "row?", c, FALSE)
    /\ rivals' = [rivals EXCEPT !.codes = IF Doing("reset", c) = {} THEN @ ELSE @ \cup {c}]
    /\ UNCHANGED <<tokens, valid, burned, block, row, keys, issued, revoked, uses, overtaken>>

\* Mutant: the key alone is believed.
ResetBelieve(q) ==
    /\ At(q, "reset", "row?")
    /\ Goto(q, "write")
    /\ UNCHANGED <<tokens, valid, burned, block, row, keys, issued, begun, history>>

\* The code must also be the one in the row.
ResetCompare(q) ==
    /\ At(q, "reset", "row?")
    /\ IF row = request[q].arg THEN Goto(q, "write") ELSE End(q)
    /\ UNCHANGED <<tokens, valid, burned, block, row, keys, issued, begun, history>>

\* Mutant: the code stays in the row.
ResetWriteHash(q) ==
    /\ At(q, "reset", "write")
    /\ uses' = [uses EXCEPT ![request[q].arg] = @ + 1]
    /\ Goto(q, "delete")
    /\ UNCHANGED <<tokens, valid, burned, block, row, keys, issued, begun, revoked, rivals, overtaken>>

\* The new password, and no code any more, by the id of the user.
ResetWrite(q) ==
    /\ At(q, "reset", "write")
    /\ row' = 0
    /\ uses' = [uses EXCEPT ![request[q].arg] = @ + 1]
    /\ overtaken' = (overtaken \/ row \notin {0, request[q].arg})
    /\ Goto(q, "delete")
    /\ UNCHANGED <<tokens, valid, burned, block, keys, issued, begun, revoked, rivals>>

ResetDelete(q) ==
    /\ At(q, "reset", "delete")
    /\ keys' = keys \ {request[q].arg}
    /\ Goto(q, "block")
    /\ UNCHANGED <<tokens, valid, burned, block, row, issued, begun, history>>

-----------------------------------------------------------------------------
(***************************************************************************)
(* Revocation of all the user's tokens, and time.                          *)
(***************************************************************************)
\* The account is upgraded; its tokens carry the former type.
UpgradeWrite(q) ==
    /\ Begin(q, "upgrade", "block", 0, FALSE)
    /\ UNCHANGED <<tokens, valid, burned, block, row, keys, issued, history>>

\* The user-level key, for the lifetime of a refresh token from now on.
Block(q) ==
    /\ request[q].pc = "block"
    /\ block' = [set |-> TRUE, covers |-> valid]
    /\ revoked' = valid
    /\ End(q)
    /\ UNCHANGED <<tokens, valid, burned, row, keys, issued, begun, uses, rivals, overtaken>>

\* Tokens expire in their order, and after an earlier block; not while a refresh that
\* verified them is in progress, because requests are short compared to lifetimes.
\* Nobody asks any more what is said of a token that has expired.
TokenExpires(t) ==
    /\ t \in valid
    /\ \A s \in valid : t <= s
    /\ block.set => t \in block.covers
    /\ Doing("refresh", t) = {}
    /\ valid' = valid \ {t}
    /\ burned' = burned \ {t} /\ revoked' = revoked \ {t}
    /\ block' = [block EXCEPT !.covers = @ \ {t}]
    /\ UNCHANGED <<tokens, row, keys, request, issued, begun, uses, rivals, overtaken>>

\* Mutant: the key lives for a fixed time, whatever the tokens' lifetime.
BlockExpiresEarly ==
    /\ block.set
    /\ block' = [set |-> FALSE, covers |-> {}]
    /\ UNCHANGED <<tokens, valid, burned, row, keys, request, issued, begun, history>>

\* The block expires after the tokens that existed when it was set.
BlockExpires ==
    /\ block.set /\ block.covers = {}
    /\ block' = [set |-> FALSE, covers |-> {}]
    /\ UNCHANGED <<tokens, valid, burned, row, keys, request, issued, begun, history>>

KeyExpires(c) ==
    /\ c \in keys
    /\ keys' = keys \ {c}
    /\ UNCHANGED <<tokens, valid, burned, block, row, request, issued, begun, history>>

\* Valkey or the database refuses the next command, or the process stops.
CutShort(q) ==
    /\ request[q] # Idle
    /\ End(q)
    /\ UNCHANGED <<tokens, valid, burned, block, row, keys, issued, begun, history>>

Next ==
    \/ Login \/ BlockExpires
    \/ \E t \in valid : Logout(t) \/ TokenExpires(t)
    \/ \E c \in Codes : KeyExpires(c)
    \/ \E q \in Requests :
         \/ \E t \in Minted : RefreshBegin(q, t)
         \/ CheckBurned(q) \/ CheckBlocked(q) \/ CheckBanned(q) \/ Burn(q) \/ RefreshMint(q)
         \/ ForgotWrite(q) \/ ForgotKey(q)
         \/ \E c \in Codes : ResetBegin(q, c)
         \/ ResetCompare(q) \/ ResetWrite(q) \/ ResetDelete(q)
         \/ UpgradeWrite(q) \/ Block(q)
         \/ CutShort(q)

Spec == Init /\ [][Next]_vars

-----------------------------------------------------------------------------
(***************************************************************************)
(* Properties.                                                             *)
(***************************************************************************)
\* A token that was burned, or existed when all the user's tokens were revoked, is not
\* exchanged by a refresh that begins afterwards: the two blacklists last as long as
\* the tokens they speak of.  A refresh that passed its checks before is not stopped.
RevokedIsFinal ==
    [][\A q \in Requests :
         At(q, "refresh", "mint") /\ tokens' # tokens /\ request'[q] = Idle
           => ~request[q].revoked]_vars

\* A token is exchanged once, whatever is cut short: it is burned before its successor
\* is minted.  Two refreshes of it at the same time both pass the check.
OneSuccessor ==
    \A t \in Tokens \ rivals.tokens :
        Cardinality({s \in Minted : tokens[s].from = t}) <= 1

\* A reset code sets one password, even when the request that used it was cut short
\* before it deleted the key, unless two requests present it at the same time.
CodeWorksOnce == \A c \in Codes \ rivals.codes : uses[c] <= 1

\* The code asked for last, as long as its key lives and it was not used, is the one
\* in the row, so it will be accepted; unless a reset with the former code was already
\* past its comparison and emptied the row.
LastCodeAccepted ==
    issued \in keys /\ uses[issued] = 0 => row = issued \/ overtaken

\* What the message of a refused refresh says ("Please log in again"): the block is
\* about the sessions that were there, a login after it starts one that can be renewed.
LoginHelps == block.set => valid \subseteq block.covers
=============================================================================
