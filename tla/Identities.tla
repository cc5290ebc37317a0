----------------------------- MODULE Identities -----------------------------
(***************************************************************************)
(* What provisioning promises about identities, with no request, timeout   *)
(* or crash in sight: an identity is created once, for one mailbox; users  *)
(* rows are admitted for it, one at most, and stay; and only an identity   *)
(* that is still held can be withdrawn (UC-02, UC-03, D-4).  Provisioning, *)
(* the model of the sagas, is shown to implement this specification.       *)
(*                                                                         *)
(* An identity is held while it may still be taken back: until the saga    *)
(* that created it ends, or longer, if that saga has asked for its         *)
(* deletion and was not answered.  What is not promised is that nobody     *)
(* else builds on it meanwhile: a row admitted for a held identity may     *)
(* lose it (RowsHaveAccounts).                                             *)
(***************************************************************************)
CONSTANTS
    Identity, Organisation,
    Address, MailboxOf   \* email addresses, and MailboxOf[a]: where a leads

VARIABLES
    home,       \* home[i]: the mailbox of identity i, for those ever created
    held,       \* identities that may still be withdrawn
    withdrawn,  \* identities that are gone, for good
    rows        \* users rows

identityVars == <<home, held, withdrawn, rows>>

Row == [id : Identity, tenant : Organisation, address : Address]

IdentityInit ==
    /\ home = [i \in {} |-> {}]
    /\ held = {}
    /\ withdrawn = {}
    /\ rows = {}

\* A new identity, for a mailbox that has none.  One that comes about after its
\* saga stopped waiting for it is never held.
Create(i, m) ==
    /\ i \notin DOMAIN home
    /\ \A j \in DOMAIN home \ withdrawn : home[j] # m
    /\ home' = [j \in DOMAIN home \cup {i} |-> IF j = i THEN m ELSE home[j]]
    /\ held' \in {held, held \cup {i}}
    /\ UNCHANGED <<withdrawn, rows>>

\* The first row of an identity, with an address of its mailbox.  If its own
\* saga admits it, that settles the matter.
Admit(r) ==
    /\ r.id \in DOMAIN home
    /\ home[r.id] = MailboxOf[r.address]
    /\ \A s \in rows : s.id # r.id
    /\ rows' = rows \cup {r}
    /\ held' \in {held, held \ {r.id}}
    /\ UNCHANGED <<home, withdrawn>>

\* The saga ends and leaves the identity behind for good.
Settle(i) ==
    /\ i \in held
    /\ held' = held \ {i}
    /\ UNCHANGED <<home, withdrawn, rows>>

\* The identity is taken back, at the end of its saga or, with a deletion that went
\* unanswered, after it.
Withdraw(i) ==
    /\ i \in held
    /\ held' = held \ {i}
    /\ withdrawn' = withdrawn \cup {i}
    /\ UNCHANGED <<home, rows>>

IdentityNext ==
    \/ \E i \in Identity :
        Settle(i) \/ Withdraw(i) \/ \E a \in Address : Create(i, MailboxOf[a])
    \/ \E r \in Row : Admit(r)

IdentitySpec == IdentityInit /\ [][IdentityNext]_identityVars
=============================================================================
