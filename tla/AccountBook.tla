----------------------------- MODULE AccountBook -----------------------------
(***************************************************************************)
(* What the accounts of the API promise, without tokens, clocks or races   *)
(* (app/models/user.py:21, app/api/deps.py:23): an email belongs to the    *)
(* client that registered it first, and to no one else ever after; and a   *)
(* client works on an account only if it is its own, or somebody who could *)
(* work on it let the client in, and only if the account is active when    *)
(* the work begins.  Accounts, where all of that rests on tokens that      *)
(* nobody stores, implements this module.                                  *)
(***************************************************************************)
CONSTANTS Clients, Emails, NoOne

VARIABLES owner,        \* who registered each email, or NoOne
          disabled,     \* the emails whose account is not active
          guests,       \* <<d, e>>: d was let in to the account of e
          admitted      \* the account each client is working on, or NoOne

bookVars == <<owner, disabled, guests, admitted>>

BookInit == /\ owner = [e \in Emails |-> NoOne]
            /\ disabled = {}
            /\ guests = {}
            /\ admitted = [c \in Clients |-> NoOne]

Welcome(c, e) == owner[e] = c \/ <<c, e>> \in guests

Claim(c, e) == /\ owner[e] = NoOne
               /\ owner' = [owner EXCEPT ![e] = c]
               /\ UNCHANGED <<disabled, guests, admitted>>

Switch(e) == /\ owner[e] # NoOne
             /\ disabled' = IF e \in disabled THEN disabled \ {e} ELSE disabled \cup {e}
             /\ UNCHANGED <<owner, guests, admitted>>

\* c, who may work on the account of e, lets d do so.
LetIn(c, d, e) == /\ Welcome(c, e)
                  /\ guests' = guests \cup {<<d, e>>}
                  /\ UNCHANGED <<owner, disabled, admitted>>

Admit(c, e) == /\ admitted[c] = NoOne
               /\ Welcome(c, e) /\ e \notin disabled
               /\ admitted' = [admitted EXCEPT ![c] = e]
               /\ UNCHANGED <<owner, disabled, guests>>

Leave(c) == /\ admitted' = [admitted EXCEPT ![c] = NoOne]
            /\ UNCHANGED <<owner, disabled, guests>>

BookNext == \/ \E c \in Clients, e \in Emails : Claim(c, e) \/ Admit(c, e)
            \/ \E c, d \in Clients, e \in Emails : LetIn(c, d, e)
            \/ \E e \in Emails : Switch(e)
            \/ \E c \in Clients : Leave(c)

BookSpec == BookInit /\ [][BookNext]_bookVars

=============================================================================
