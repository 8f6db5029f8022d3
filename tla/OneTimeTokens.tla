---------------------------- MODULE OneTimeTokens ----------------------------
(***************************************************************************)
(* One-time tokens of one mailbox (casino/core/one_time_tokens.py).  Every *)
(* operation is one atomic update of the token document; the guards and    *)
(* new documents below are used by the flows that mail such tokens.        *)
(*                                                                         *)
(* Left out: attempts with a wrong mailbox or session (only this mailbox   *)
(* is modelled) and the pruning of tokens two weeks after they ended.      *)
(***************************************************************************)
EXTENDS Integers, Sequences

CONSTANTS
    Browser,    \* the clients that may present a mailed token
    NoBrowser   \* the absence of one

ASSUME BrowserAssumption == NoBrowser \notin Browser

VARIABLES
    tokens,     \* the token rows; a token's id is its place
    mailed      \* the tokens that reached the mailbox

Purpose == {"signup", "invitation"}

\* by: the idempotency key it was consumed under, kept per token and browser.
Token == [purpose : Purpose,
          state : {"candidate", "active", "consumed", "revoked"},
          pred : Nat, by : Browser \union {NoBrowser}, expired : BOOLEAN]

TokensInit == tokens = <<>> /\ mailed = {}

\* A bearer that consume accepts.
Active(t) == t \in DOMAIN tokens /\ tokens[t].state = "active" /\ ~tokens[t].expired

Minted(p, state, pred) ==
    [purpose |-> p, state |-> state, pred |-> pred, by |-> NoBrowser, expired |-> FALSE]

\* issue: only while the mailbox has no active token of the purpose.
MayIssue(p) == \A t \in DOMAIN tokens : tokens[t].purpose = p => ~Active(t)
Issued(p) == Append(tokens, Minted(p, "active", 0))

\* reissue: revokes every active token of the purpose first.
Reissued(p) ==
    Append([t \in DOMAIN tokens |->
                IF Active(t) /\ tokens[t].purpose = p
                THEN [tokens[t] EXCEPT !.state = "revoked"]
                ELSE tokens[t]],
           Minted(p, "active", 0))

\* prepare_candidate: the predecessor works and no other candidate is live.
MayPrepare(p, pred) ==
    /\ Active(pred)
    /\ \A t \in DOMAIN tokens :
            tokens[t].purpose = p /\ tokens[t].state = "candidate" => tokens[t].expired
Prepared(p, pred) == Append(tokens, Minted(p, "candidate", pred))

\* promote_candidate: swaps predecessor and candidate, or finds that it did.
WasPromoted(c, p) ==
    tokens[c].pred = p /\ tokens[c].state = "active" /\ tokens[p].state = "revoked"
MayPromote(c, p) ==
    /\ tokens[c].pred = p /\ tokens[c].state = "candidate" /\ ~tokens[c].expired
    /\ Active(p)

\* Mutant of Promoted: the predecessor keeps working.
PromotedBeside(c, p) == [tokens EXCEPT ![c].state = "active"]
Promoted(c, p) == [tokens EXCEPT ![c].state = "active", ![p].state = "revoked"]

\* discard_candidate and revoke, which look for a candidate or an active token.
Discarded(c) ==
    IF tokens[c].state = "candidate" THEN [tokens EXCEPT ![c].state = "revoked"] ELSE tokens
Revoked(t) ==
    IF Active(t) THEN [tokens EXCEPT ![t].state = "revoked"] ELSE tokens

\* Mutant of MayConsume: a consumed token is replayed to whoever presents it.
MayConsumeAgain(t, b) == Active(t) \/ tokens[t].state = "consumed"

\* Mutant of MayConsume: a retry under the same key is refused too.
MayConsumeOnce(t, b) == Active(t)

\* consume: once, and again only under the same idempotency key.
MayConsume(t, b) == Active(t) \/ (tokens[t].state = "consumed" /\ tokens[t].by = b)
Consumed(t, b) == [tokens EXCEPT ![t].state = "consumed", ![t].by = b]

\* Time: tokens expire in the order of their creation.
ExpireToken(t) ==
    /\ tokens[t].state \in {"candidate", "active"} /\ ~tokens[t].expired
    /\ \A u \in 1..(t - 1) :
            tokens[u].purpose = tokens[t].purpose /\ tokens[u].state \in {"candidate", "active"}
                => tokens[u].expired
    /\ tokens' = [tokens EXCEPT ![t].expired = TRUE]
    /\ UNCHANGED mailed

TokensTypeOK ==
    /\ tokens \in Seq(Token)
    /\ mailed \subseteq DOMAIN tokens
=============================================================================
