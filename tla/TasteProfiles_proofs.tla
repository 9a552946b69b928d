------------------------ MODULE TasteProfiles_proofs ------------------------
(***************************************************************************)
(* For any number of generations and of changes of the library, the taste  *)
(* profiles have dense versions of which the newest is current, and they   *)
(* implement ProfileHistory.                                               *)
(*                                                                         *)
(* The step that matters is PublishVersion: a generation took the version  *)
(* of the profile it found current long ago, and the INSERT only tells it  *)
(* that the next version is free.  As the versions have no gap, nothing    *)
(* above the next version exists either, so the profile that was found is  *)
(* still the newest and the one row that has to be retired.                *)
(***************************************************************************)
EXTENDS TasteProfiles, TLAPS

\* The facts about p = previous[g] a publishing generation has.
LEMMA StillNewest ==
    ASSUME IInv, NEW g \in Generations, ~VersionTaken(Since(previous[g]) + 1)
    PROVE  /\ Since(previous[g]) \in Nat
           /\ \A h \in Generations : Exists(h) => profiles[h].version <= Since(previous[g])
PROOF
<1>1. \A h \in Generations : Exists(h) => profiles[h] \in Row
  BY DEF IInv, TypeOK, Exists
<1>2. Since(previous[g]) \in Nat
  BY <1>1 DEF IInv, TypeOK, PreviousExists, Since, Row
<1>3. ASSUME NEW h \in Generations, Exists(h),
             ~(profiles[h].version <= Since(previous[g]))
      PROVE  FALSE
  <2>1. Since(previous[g]) + 1 \in 1 .. profiles[h].version
    BY <1>1, <1>2, <1>3 DEF Row
  <2> QED
    BY <1>3, <2>1 DEF IInv, VersionsDense
<1> QED
  BY <1>2, <1>3

\* The state of the table after g has published, row by row.
LEMMA Published ==
    ASSUME IInv, NEW g \in Generations, PublishVersion(g)
    PROVE  /\ ~Exists(g)
           /\ previous[g] # g
           /\ Exists(g)'
           /\ profiles' \in [Generations -> Row \cup {NoProfile}]
           /\ profiles'[g] = [version |-> Since(previous[g]) + 1, is_current |-> TRUE,
                              basis |-> snapshot[g], since |-> Since(previous[g])]
           /\ \A h \in Generations \ {g} :
                 /\ Exists(h)' <=> Exists(h)
                 /\ Exists(h) => /\ profiles'[h].version = profiles[h].version
                                 /\ profiles'[h].basis = profiles[h].basis
                                 /\ profiles'[h].since = profiles[h].since
                                 /\ h # previous[g] =>
                                      (profiles'[h].is_current <=> profiles[h].is_current)
                                 /\ h = previous[g] => ~profiles'[h].is_current
PROOF
<1>1. ~Exists(g) /\ previous[g] # g
  BY NoProfileAssumption DEF IInv, TypeOK, PreviousExists, PublishVersion, Exists
<1>2. Since(previous[g]) \in Nat
  BY StillNewest DEF PublishVersion
<1>3. Retired(g) \in [Generations -> Row \cup {NoProfile}]
  BY DEF Retired, IInv, TypeOK, Exists, Row
<1> DEFINE new == [version |-> Since(previous[g]) + 1, is_current |-> TRUE,
                   basis |-> snapshot[g], since |-> Since(previous[g])]
<1>4. new \in Row
  BY <1>2 DEF IInv, TypeOK, Row
<1>5. profiles' = [Retired(g) EXCEPT ![g] = new]
  BY DEF PublishVersion
<1>6. profiles' \in [Generations -> Row \cup {NoProfile}] /\ profiles'[g] = new
  BY <1>3, <1>4, <1>5
<1>7. ASSUME NEW h \in Generations \ {g}
      PROVE  /\ Exists(h)' <=> Exists(h)
             /\ Exists(h) => /\ profiles'[h].version = profiles[h].version
                             /\ profiles'[h].basis = profiles[h].basis
                             /\ profiles'[h].since = profiles[h].since
                             /\ h # previous[g] =>
                                  (profiles'[h].is_current <=> profiles[h].is_current)
                             /\ h = previous[g] => ~profiles'[h].is_current
  <2>1. profiles'[h] = Retired(g)[h]
    BY <1>3, <1>5
  <2>2. Exists(h) => profiles[h] \in Row
    BY DEF IInv, TypeOK, Exists
  <2>3. CASE Exists(h) /\ h = previous[g]
    <3>1. profiles'[h] = [profiles[h] EXCEPT !.is_current = FALSE]
      BY <2>1, <2>3 DEF Retired
    <3>2. profiles'[h] \in Row /\ ~profiles'[h].is_current
      BY <2>2, <2>3, <3>1 DEF Row
    <3> QED
      BY <2>2, <2>3, <3>1, <3>2, NoProfileAssumption DEF Row, Exists
  <2>4. CASE ~(Exists(h) /\ h = previous[g])
    BY <2>1, <2>4 DEF Retired, Exists
  <2> QED
    BY <2>3, <2>4
<1>8. Exists(g)'
  BY <1>4, <1>6, NoProfileAssumption DEF Exists
<1> QED
  BY <1>1, <1>6, <1>7, <1>8

LEMMA PublishKeepsIInv ==
    ASSUME IInv, NEW g \in Generations, PublishVersion(g)
    PROVE  IInv'
PROOF
<1> DEFINE v == Since(previous[g])
<1>1. /\ v \in Nat
      /\ \A h \in Generations : Exists(h) => profiles[h].version <= v
  BY StillNewest DEF PublishVersion
<1>2. /\ profiles'[g].version = v + 1
      /\ profiles'[g].is_current
      /\ Exists(g)'
  <2>1. profiles'[g] = [version |-> v + 1, is_current |-> TRUE,
                        basis |-> snapshot[g], since |-> v]
    BY Published
  <2>2. profiles'[g].version = v + 1 /\ profiles'[g].is_current
    BY <2>1
  <2>3. Exists(g)'
    BY Published
  <2> QED
    BY <2>2, <2>3
<1>3. \A h \in Generations : Exists(h) => profiles[h].version \in Nat \ {0}
  BY DEF IInv, TypeOK, Exists, Row
<1>4. \A h \in Generations \ {g} :
          (Exists(h)' <=> Exists(h)) /\ (Exists(h) => profiles'[h].version = profiles[h].version)
  BY Published
<1>5. pc' = [pc EXCEPT ![g] = "published"] /\ UNCHANGED <<revision, entries, snapshot, previous>>
  BY DEF PublishVersion, Goto, libraryVars
<1>6. TypeOK'
  BY <1>5, Published DEF IInv, TypeOK, Running, Ended
<1>7. VersionsDense'
  <2>1. ASSUME NEW a \in Generations, NEW b \in Generations, Exists(a)', Exists(b)',
               profiles'[a].version = profiles'[b].version
        PROVE  a = b
    BY <1>1, <1>2, <1>3, <1>4, <2>1 DEF IInv, VersionsDense
  <2>2. ASSUME NEW w, VersionTaken(w) \/ w = v + 1
        PROVE  VersionTaken(w)'
    <3>1. CASE w = v + 1
      BY <1>2, <3>1 DEF VersionTaken
    <3>2. CASE VersionTaken(w)
      <4>1. PICK h \in Generations : Exists(h) /\ profiles[h].version = w
        BY <3>2 DEF VersionTaken
      <4>2. h # g
        BY <4>1, Published
      <4>3. Exists(h)' /\ profiles'[h].version = w
        BY <1>4, <4>1, <4>2
      <4> QED
        BY <4>3 DEF VersionTaken
    <3> QED
      BY <2>2, <3>1, <3>2
  <2>3. ASSUME NEW a \in Generations, Exists(a)', NEW w \in 1 .. profiles'[a].version
        PROVE  VersionTaken(w)'
    <3>1. CASE a # g
      BY <1>4, <2>2, <2>3, <3>1 DEF IInv, VersionsDense
    <3>2. CASE a = g /\ w # v + 1
      <4>1. w \in 1 .. v
        BY <1>1, <1>2, <2>3, <3>2
      <4>2. previous[g] \in Generations /\ Exists(previous[g]) /\ v = profiles[previous[g]].version
        BY <4>1 DEF Since, IInv, TypeOK, PreviousExists
      <4> QED
        BY <2>2, <4>1, <4>2 DEF IInv, VersionsDense
    <3>3. CASE w = v + 1
      BY <2>2, <3>3
    <3> QED
      BY <3>1, <3>2, <3>3
  <2> QED
    BY <2>1, <2>3 DEF VersionsDense
<1>8. NewestIsCurrent'
  <2>1. ASSUME NEW a \in Generations, Exists(a)', a # g
        PROVE  ~profiles'[a].is_current /\ profiles'[a].version < profiles'[g].version
    <3>1. Exists(a) /\ profiles'[a].version = profiles[a].version /\ profiles[a].version <= v
      BY <1>1, <1>4, <2>1
    <3>2. profiles'[a].version < profiles'[g].version
      BY <1>1, <1>2, <1>3, <3>1
    <3>3. CASE a = previous[g]
      BY <2>1, <3>1, <3>2, <3>3, Published
    <3>4. CASE a # previous[g]
      <4>1. previous[g] \in Generations /\ Exists(previous[g]) /\ v = profiles[previous[g]].version
        BY <1>1, <1>3, <3>1 DEF Since, IInv, TypeOK, PreviousExists
      <4>2. profiles[a].version < v
        BY <1>1, <1>3, <3>1, <3>4, <4>1 DEF IInv, VersionsDense
      <4>3. ~(profiles[previous[g]].version <= profiles[a].version)
        BY <1>1, <1>3, <3>1, <4>1, <4>2
      <4>4. ~profiles[a].is_current
        BY <3>1, <4>1, <4>3 DEF IInv, NewestIsCurrent
      <4>5. profiles'[a].is_current <=> profiles[a].is_current
        BY <2>1, <3>1, <3>4, Published
      <4> QED
        BY <3>2, <4>4, <4>5
    <3> QED
      BY <3>3, <3>4
  <2>2. \A a \in Generations : Exists(a)' => profiles'[a].version \in Nat
    BY <1>1, <1>2, <1>3, <1>4
  <2>3. ASSUME NEW a \in Generations, Exists(a)'
        PROVE  profiles'[a].is_current <=>
                 \A h \in Generations : Exists(h)' => profiles'[h].version <= profiles'[a].version
    <3>1. CASE a = g
      BY <1>2, <2>1, <2>2, <3>1
    <3>2. CASE a # g
      <4>1. ~(profiles'[g].version <= profiles'[a].version)
        BY <1>2, <2>1, <2>2, <2>3, <3>2
      <4> QED
        BY <1>2, <2>1, <2>3, <3>2, <4>1
    <3> QED
      BY <3>1, <3>2
  <2>4. Current' # {}
    BY <1>2 DEF Current
  <2> QED
    BY <2>3, <2>4 DEF NewestIsCurrent
<1>9. PreviousExists'
  <2>1. \A a \in Generations : Exists(a) => Exists(a)'
    BY <1>2, <1>4
  <2>2. \A a \in Generations : (previous[a] # NoProfile => Exists(previous[a]))'
    <3>1. ASSUME NEW a \in Generations, previous[a] # NoProfile
          PROVE  previous[a] \in Generations /\ Exists(previous[a])
      BY <3>1 DEF IInv, TypeOK, PreviousExists
    <3>2. ASSUME NEW a \in Generations, previous[a] # NoProfile
          PROVE  profiles'[previous[a]] # NoProfile
      BY <2>1, <3>1, <3>2 DEF Exists
    <3> QED
      BY <1>5, <3>2 DEF Exists
  <2>3. \A a \in Generations : Exists(a)' => pc'[a] = "published"
    BY <1>4, <1>5 DEF IInv, TypeOK, PreviousExists
  <2> QED
    BY <2>2, <2>3 DEF PreviousExists
<1> QED
  BY <1>6, <1>7, <1>8, <1>9 DEF IInv

\* Every other step leaves the table alone.
LEMMA OthersKeepIInv ==
    ASSUME IInv, UNCHANGED profiles, TypeOK',
           \A g \in Generations : Exists(g) => pc'[g] = pc[g],
           \A g \in Generations : previous'[g] \in Current \cup {previous[g], NoProfile}
    PROVE  IInv'
PROOF
<1>1. \A g \in Generations : Exists(g)' <=> Exists(g)
  BY DEF Exists
<1>2. VersionsDense'
  BY DEF IInv, VersionsDense, VersionTaken, Exists
<1>3. NewestIsCurrent'
  BY DEF IInv, NewestIsCurrent, Current, Exists
<1>4. PreviousExists'
  <2>1. \A g \in Generations : Exists(g)' => pc'[g] = "published"
    BY <1>1 DEF IInv, PreviousExists
  <2>2. \A g \in Generations : previous'[g] # NoProfile => profiles[previous'[g]] # NoProfile
    BY DEF IInv, PreviousExists, Current, Exists
  <2> QED
    BY <2>1, <2>2 DEF PreviousExists, Exists
<1> QED
  BY <1>2, <1>3, <1>4 DEF IInv

\* The table is only ever written by PublishVersion.
LEMMA StepKeepsIInv ==
    ASSUME IInv, Next
    PROVE  IInv'
PROOF
<1>1. CASE ChangeLibrary
  <2>1. TypeOK'
    BY <1>1 DEF IInv, TypeOK, ChangeLibrary
  <2> QED
    BY <1>1, <2>1, OthersKeepIInv DEF ChangeLibrary, IInv, TypeOK
<1>2. CASE \E g \in Generations : PublishVersion(g)
  BY <1>2, PublishKeepsIInv
<1>3. ASSUME NEW g \in Generations, GenerationStep(g), ~PublishVersion(g)
      PROVE  IInv'
  <2>1. /\ UNCHANGED <<revision, entries, profiles>>
        /\ snapshot' \in [Generations -> Nat]
        /\ \E label \in Running \cup Ended : pc' = [pc EXCEPT ![g] = label]
        /\ pc[g] \in {"idle"} \cup Running
    BY <1>3 DEF GenerationStep, ReadSnapshot, ReadPrevious, Analyze,
               Retire, LoseRace, Fail, Goto, Running, Ended, libraryVars, IInv, TypeOK
  <2>2. \/ UNCHANGED previous
        \/ \E p \in Current \cup {NoProfile} : previous' = [previous EXCEPT ![g] = p]
    BY <1>3 DEF GenerationStep, ReadSnapshot, ReadPrevious, Analyze,
               Retire, LoseRace, Fail
  <2>3. TypeOK'
    BY <2>1, <2>2 DEF IInv, TypeOK, Current
  <2>4. ~Exists(g)
    BY <2>1 DEF IInv, PreviousExists, Running
  <2>5. \A h \in Generations : Exists(h) => pc'[h] = pc[h]
    BY <2>1, <2>4 DEF IInv, TypeOK
  <2>6. \A h \in Generations : previous'[h] \in Current \cup {previous[h], NoProfile}
    BY <2>2 DEF IInv, TypeOK
  <2> QED
    BY <2>1, <2>3, <2>5, <2>6, OthersKeepIInv
<1>4. CASE Rest
  BY <1>4, OthersKeepIInv DEF Rest, tasteVars, IInv, TypeOK
<1> QED
  BY <1>1, <1>2, <1>3, <1>4 DEF Next

\* The versions are dense and the newest is current, in every state: app/
\* services/ai/taste_profile.py relies on both in get_current.
THEOREM Invariance == Spec => []IInv
PROOF
<1>1. Init => IInv
  BY LimitAssumption DEF Init, IInv, TypeOK, VersionsDense, NewestIsCurrent, PreviousExists, Exists, Current
<1>2. IInv /\ [Next]_tasteVars => IInv'
  <2>1. CASE Next
    BY <2>1, StepKeepsIInv
  <2>2. CASE UNCHANGED tasteVars
    BY <2>2, OthersKeepIInv DEF tasteVars, IInv, TypeOK
  <2> QED
    BY <2>1, <2>2
<1> QED
  BY <1>1, <1>2, PTL DEF Spec

-----------------------------------------------------------------------------
\* The version the abstract history calls the latest.
LEMMA LatestIs ==
    ASSUME IInv
    PROVE  /\ Current = {} => latest = 0
           /\ \A p \in Current : latest = profiles[p].version
PROOF
<1>1. ASSUME NEW p \in Current, NEW q \in Current
      PROVE  p = q
  <2>1. /\ p \in Generations /\ Exists(p) /\ profiles[p].is_current
        /\ q \in Generations /\ Exists(q) /\ profiles[q].is_current
    BY DEF Current
  <2>2. profiles[p].version \in Nat /\ profiles[q].version \in Nat
    BY <2>1 DEF IInv, TypeOK, Exists, Row
  <2>3. /\ profiles[p].version <= profiles[q].version
        /\ profiles[q].version <= profiles[p].version
    BY <2>1 DEF IInv, NewestIsCurrent
  <2>4. profiles[p].version = profiles[q].version
    BY <2>2, <2>3
  <2> QED
    BY <2>1, <2>4 DEF IInv, VersionsDense
<1>2. ASSUME NEW p \in Current
      PROVE  latest = profiles[p].version
  <2> DEFINE q == CHOOSE g \in Current : TRUE
  <2>1. q \in Current
    OBVIOUS
  <2>2. q = p
    BY <1>1, <2>1
  <2> QED
    BY <2>1, <2>2 DEF latest
<1> QED
  BY <1>2 DEF latest

\* A generation that publishes was compared with the latest version.
LEMMA SinceIsLatest ==
    ASSUME IInv, NEW g \in Generations, ~VersionTaken(Since(previous[g]) + 1)
    PROVE  Since(previous[g]) = latest
PROOF
<1>1. /\ Since(previous[g]) \in Nat
      /\ \A h \in Generations : Exists(h) => profiles[h].version <= Since(previous[g])
  BY StillNewest
<1>2. CASE previous[g] = NoProfile
  <2>1. \A h \in Generations : ~Exists(h)
    <3>1. Since(previous[g]) = 0
      BY <1>2 DEF Since
    <3>2. ASSUME NEW h \in Generations, Exists(h)
          PROVE  ~(profiles[h].version <= 0)
      <4>1. profiles[h].version \in Nat \ {0}
        BY <3>2 DEF IInv, TypeOK, Exists, Row
      <4> QED
        BY <4>1
    <3>3. \A h \in Generations : Exists(h) => profiles[h].version <= 0
      BY <1>1, <3>1
    <3> QED
      BY <3>2, <3>3
  <2> QED
    BY <1>2, <2>1, LatestIs DEF Since, Current
<1>3. CASE previous[g] # NoProfile
  <2>1. /\ previous[g] \in Generations /\ Exists(previous[g])
        /\ Since(previous[g]) = profiles[previous[g]].version
    BY <1>3 DEF IInv, TypeOK, PreviousExists, Since
  <2>2. previous[g] \in Current
    BY <1>1, <2>1 DEF Current, IInv, NewestIsCurrent
  <2> QED
    BY <2>1, <2>2, LatestIs
<1> QED
  BY <1>2, <1>3

\* The profile that was just published is the newest.
LEMMA PublishedIsLatest ==
    ASSUME IInv, NEW g \in Generations, PublishVersion(g)
    PROVE  latest' = latest + 1
PROOF
<1>1. latest = Since(previous[g]) /\ latest \in Nat
  BY SinceIsLatest, StillNewest DEF PublishVersion
<1>2. profiles'[g] = [version |-> latest + 1, is_current |-> TRUE,
                      basis |-> snapshot[g], since |-> latest]
  BY <1>1, Published
<1>3. Exists(g)' /\ ~Exists(g)
  BY Published
<1>4. \A h \in Generations \ {g} : h \notin Current'
  <2>1. \A h \in Generations : Exists(h) => profiles[h].version <= latest
    BY <1>1, StillNewest DEF PublishVersion
  <2>2. ASSUME NEW h \in Generations \ {g}, Exists(h)'
        PROVE  ~(profiles'[g].version <= profiles'[h].version)
    <3>1. profiles'[h].version = profiles[h].version /\ Exists(h)
      BY <2>2, Published
    <3>2. profiles[h].version \in Nat
      BY <3>1 DEF IInv, TypeOK, Exists, Row
    <3> QED
      BY <1>1, <1>2, <2>1, <3>1, <3>2
  <2>3. NewestIsCurrent'
    BY PublishKeepsIInv DEF IInv
  <2> QED
    <3>1. ASSUME NEW h \in Generations \ {g}, Exists(h)'
          PROVE  ~profiles'[h].is_current
      BY <1>3, <2>2, <2>3, <3>1 DEF NewestIsCurrent
    <3> QED
      BY <3>1 DEF Current
<1>5. g \in Current'
  BY <1>2, <1>3 DEF Current
<1>6. Current' = {g}
  BY <1>4, <1>5 DEF Current
<1>7. latest' = profiles'[g].version
  BY <1>6 DEF latest
<1> QED
  BY <1>2, <1>7

LEMMA PublishAppends ==
    ASSUME IInv, NEW g \in Generations, PublishVersion(g)
    PROVE  PH!HistoryNext
PROOF
<1> DEFINE new == [version |-> latest + 1, basis |-> snapshot[g], since |-> latest]
           entry(h) == [version |-> profiles[h].version, basis |-> profiles[h].basis,
                        since |-> profiles[h].since]
<1>1. latest = Since(previous[g]) /\ latest \in Nat
  BY SinceIsLatest, StillNewest DEF PublishVersion
<1>2. profiles'[g] = [version |-> latest + 1, is_current |-> TRUE,
                      basis |-> snapshot[g], since |-> latest]
  BY <1>1, Published
<1>3. Exists(g)' /\ ~Exists(g)
  BY Published
<1>4. entry(g)' = new
  <2>1. /\ profiles'[g].version = latest + 1
        /\ profiles'[g].basis = snapshot[g]
        /\ profiles'[g].since = latest
    BY <1>2
  <2> QED
    BY <2>1
<1>5. \A h \in Generations \ {g} :
          (Exists(h)' <=> Exists(h)) /\ (Exists(h) => entry(h)' = entry(h))
  BY Published
<1>6. history' = history \cup {new}
  <2>1. history = {entry(h) : h \in {i \in Generations : Exists(i)}}
    BY DEF history
  <2>2. history' = {entry(h)' : h \in {i \in Generations : Exists(i)'}}
    BY DEF history
  <2>3. ASSUME NEW x \in history'
        PROVE  x \in history \cup {new}
    <3>1. PICK h \in Generations : Exists(h)' /\ x = entry(h)'
      BY <2>2, <2>3
    <3> HIDE DEF entry, new
    <3> QED
      BY <1>4, <1>5, <2>1, <3>1
  <2>4. ASSUME NEW x \in history \cup {new}
        PROVE  x \in history'
    <3>1. CASE x = new
      <4> HIDE DEF entry, new
      <4> QED
        BY <1>3, <1>4, <2>2, <3>1
    <3>2. CASE x \in history
      <4>1. PICK h \in Generations : Exists(h) /\ x = entry(h)
        BY <2>1, <3>2
      <4>2. h # g
        BY <1>3, <4>1
      <4> HIDE DEF entry, new
      <4> QED
        BY <1>5, <2>2, <4>1, <4>2
    <3> QED
      BY <2>4, <3>1, <3>2
  <2> QED
    BY <2>3, <2>4
<1>7. latest' = latest + 1
  BY PublishedIsLatest
<1>8. new \in PH!Profile
  BY <1>1 DEF PH!Profile, IInv, TypeOK
<1>9. PH!Publish(new)
  BY <1>6, <1>7, <1>8 DEF PH!Publish
<1> QED
  BY <1>6, <1>9 DEF PH!HistoryNext

\* TasteProfiles implements ProfileHistory: whatever the generations do, the
\* table is a history that is only appended to, with the newest row current.
THEOREM Refinement == Spec => HistorySpec
PROOF
<1>1. Init => PH!HistoryInit
  BY DEF Init, PH!HistoryInit, history, latest, Current, Exists
<1>2. IInv /\ [Next]_tasteVars => [PH!HistoryNext]_<<history, latest>>
  <2>1. ASSUME UNCHANGED profiles
        PROVE  UNCHANGED <<history, latest>>
    <3>1. Current' = Current /\ \A h \in Generations : Exists(h)' = Exists(h)
      BY <2>1 DEF Current, Exists
    <3>2. latest' = latest
      BY <2>1, <3>1 DEF latest
    <3>3. history' = history
      BY <2>1, <3>1 DEF history, Exists
    <3> QED
      BY <3>2, <3>3
  <2>2. ASSUME IInv, NEW g \in Generations, GenerationStep(g)
        PROVE  [PH!HistoryNext]_<<history, latest>>
    <3>1. CASE PublishVersion(g)
      BY <2>2, <3>1, PublishAppends
    <3>2. CASE ~PublishVersion(g)
      BY <2>1, <2>2, <3>2 DEF GenerationStep, ReadSnapshot, ReadPrevious,
                              Analyze, Retire, LoseRace, Fail
    <3> QED
      BY <3>1, <3>2
  <2> QED
    BY <2>1, <2>2 DEF Next, ChangeLibrary, Rest, tasteVars
<1> QED
  BY <1>1, <1>2, Invariance, PTL DEF Spec, HistorySpec, PH!HistorySpec

=============================================================================
