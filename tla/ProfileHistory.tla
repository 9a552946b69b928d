--------------------------- MODULE ProfileHistory ---------------------------
(***************************************************************************)
(* What a user's taste profiles promise (app/models/taste_profile.py:20):  *)
(* a history that is only ever appended to, versions 1, 2, 3, ... without  *)
(* a gap or a repeat, each with the shifts since the one before it, and    *)
(* one current version, the newest.  TasteProfiles, where generations run  *)
(* at once and fail half-way, implements this module.                      *)
(***************************************************************************)
EXTENDS Naturals

VARIABLES history,      \* the profiles, a set of records
          latest        \* the version that is current, 0 before the first

\* basis: the revision of the library a profile was made from; since: the
\* version whose summary it was compared with, 0 for none.
Profile == [version : Nat, basis : Nat, since : Nat]

HistoryInit == history = {} /\ latest = 0

\* A generation publishes the next version.
Publish(p) == /\ p \in Profile
              /\ p.version = latest + 1
              /\ p.since = latest
              /\ latest' = p.version
              /\ history' = history \cup {p}

HistoryNext == \E p \in history' : Publish(p)

HistorySpec == HistoryInit /\ [][HistoryNext]_<<history, latest>>

=============================================================================
