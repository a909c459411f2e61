----------------------------- MODULE AliasLedger ----------------------------
(***************************************************************************)
(* What the gateway promises to whoever reads masked text: an alias that   *)
(* was issued under a session key stands for one secret for ever, and a    *)
(* secret is never given a second alias under the same key.  Nothing is    *)
(* ever taken back: the upstream keeps what it was sent.                   *)
(***************************************************************************)
CONSTANTS Keys, Secrets, Aliases

VARIABLE issued     \* every (key, secret, alias) that left the gateway

Issue == [key : Keys, secret : Secrets, alias : Aliases]

Consistent(entries) ==
    \A x, y \in entries :
        x.key = y.key => (x.secret = y.secret <=> x.alias = y.alias)

LedgerInit == issued = {}

\* One payload is sent: aliases of one key.
IssuePayload ==
    \E key \in Keys :
        /\ issued \subseteq issued'
        /\ issued' \subseteq Issue
        /\ \A x \in issued' \ issued : x.key = key
        /\ Consistent(issued')

LedgerSpec == LedgerInit /\ [][IssuePayload]_issued
=============================================================================
