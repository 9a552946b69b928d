--------------------------- MODULE ReadingLedger ---------------------------
(***************************************************************************)
(* What the activity log promises about the library, whoever writes to it: *)
(* "changes are logged to ReadingActivity" (README.md:318).  The           *)
(* library and the log are changed by one atomic step, which appends a     *)
(* batch of activities that accounts for every tracked column it changes   *)
(* and reports nothing that is not so.  Removing an entry leaves the log   *)
(* alone: DELETE /library/{entry_id} writes no activity.                   *)
(*                                                                         *)
(* LibrarySync, where a dozen transactions read, wait and write in any     *)
(* order, implements this module.                                          *)
(***************************************************************************)
EXTENDS ReadingActivity, Sequences, Naturals

CONSTANTS NoRow,        \* a manga the user has no library entry for
          RowId         \* library_entries.id

ASSUME NoRowAssumption == NoRow \notin [id : RowId, val : Columns]

VARIABLES library,      \* Manga -> its committed library entry or NoRow
          log           \* the committed batches of activities, in commit order

Row == [id : RowId, val : Columns]

Batch == [at : Nat, acts : SUBSET Activity]

ledgerVars == <<library, log>>

LedgerInit == /\ library \in [Manga -> Row \cup {NoRow}]
              /\ log = << >>

\* Batch b reports nothing of m that is not so afterwards.
Truthful(b, m, new) ==
    new # NoRow => \A f \in Tracked : Reports(b.acts, m, f) \subseteq {new.val[f]}

\* Batch b says what happened to the entry of m: that it was opened, or the new
\* value of each tracked column that changed.
Complete(b, m, old, new) ==
    new # NoRow => \/ Opens(b.acts, m)
                   \/ /\ old # NoRow
                      /\ \A f \in Tracked :
                            \/ Reports(b.acts, m, f) # {}
                            \/ new.val[f] = old.val[f]

Accounts(b, before, after) ==
    \A m \in Manga : /\ Truthful(b, m, after[m])
                     /\ Complete(b, m, before[m], after[m])

\* A committed transaction with the activities it inserted.
Record == LET b == log'[Len(log')] IN
          /\ Len(log') = Len(log) + 1
          /\ b \in Batch
          /\ log' = Append(log, b)
          /\ library' \in [Manga -> Row \cup {NoRow}]
          /\ Accounts(b, library, library')

\* A committed transaction that inserted no activity: it removed entries or
\* changed nothing that is tracked.
Unlogged == /\ log' = log
            /\ library' \in [Manga -> Row \cup {NoRow}]
            /\ \A m \in Manga :
                  library'[m] # NoRow =>
                      /\ library[m] # NoRow
                      /\ \A f \in Tracked : library'[m].val[f] = library[m].val[f]

LedgerNext == Record \/ Unlogged

LedgerSpec == LedgerInit /\ [][LedgerNext]_ledgerVars

-----------------------------------------------------------------------------
\* The log from batch i on says nothing more of field f of m.
LastWord(i, m, f) ==
    /\ i \in DOMAIN log
    /\ Reports(log[i].acts, m, f) # {}
    /\ \A j \in DOMAIN log :
          j > i => Reports(log[j].acts, m, f) = {} /\ ~Opens(log[j].acts, m)

\* The last report of a tracked field since the entry was opened is the value
\* the library has: replaying the log never tells another story than the table.  The
\* order is that of the commits.  A reader of the table of activities has only
\* occurred_at to sort by, the begin of each transaction (models/activity.py:53), and
\* may be told of a long run's changes as if they came before a later request's.
LogAgrees ==
    \A m \in Manga, f \in Tracked, i \in DOMAIN log :
        library[m] # NoRow /\ LastWord(i, m, f)
            => Reports(log[i].acts, m, f) = {library[m].val[f]}

=============================================================================
