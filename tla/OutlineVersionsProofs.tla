----------------------- MODULE OutlineVersionsProofs -----------------------
(***************************************************************************)
(* What holds of the outline versions for every number of sessions,        *)
(* versions and attempts: types, numbering and lineage.                    *)
(***************************************************************************)
EXTENDS OutlineVersions, TLAPS

Statuses == {"candidate", "official", "superseded"}

-----------------------------------------------------------------------------
(* The inductive invariant. *)

\* A base is an older version, and what sessions remember of the rows still
\* holds of them: rows are never removed, and a base never changes.
Bases ==
    /\ \A v \in DOMAIN version : version[v].base < v
    /\ \A s \in Sessions :
        /\ revising[s].base <= Len(version)
        /\ revising[s].pc = "inserting" =>
               revising[s].number \in 1 .. Len(version) + 1
        /\ revising[s].pc = "approving" =>
               /\ revising[s].target \in DOMAIN version
               /\ revising[s].base = version[revising[s].target].base

\* Until the first approval every version is a candidate.
FirstIsApproved ==
    official = 0 => \A v \in DOMAIN version : version[v].status = "candidate"

OutlineInv == /\ OutlineTypeOK
              /\ Bases
              /\ NumbersFollowInsertion
              /\ FirstIsApproved
              /\ OfficialLineage

-----------------------------------------------------------------------------
(* Lemmas about the operators the actions are built from. *)

\* The rows of a sequence of versions, one by one.
LEMMA RowFacts ==
    ASSUME OutlineTypeOK
    PROVE  /\ Len(version) \in Nat
           /\ DOMAIN version = 1 .. Len(version)
           /\ \A v \in DOMAIN version :
                /\ version[v] \in VersionRows
                /\ version[v].number \in Nat /\ version[v].base \in Nat
                /\ version[v].status \in Statuses
           /\ official \in Nat
<1>1. version \in Seq(VersionRows) /\ official \in 0 .. Len(version)
  BY DEF OutlineTypeOK
<1>2. Len(version) \in Nat /\ DOMAIN version = 1 .. Len(version)
  BY <1>1
<1>3. \A v \in DOMAIN version : version[v] \in VersionRows
  BY <1>1
<1>4. \A row \in VersionRows :
        row.number \in Nat /\ row.base \in Nat /\ row.status \in Statuses
  BY DEF VersionRows, Statuses
<1> QED BY <1>1, <1>2, <1>3, <1>4

\* When the rows are numbered in their order, the next number follows.
LEMMA NextNumberFollows ==
    ASSUME OutlineTypeOK, NumbersFollowInsertion
    PROVE  NextNumber = Len(version) + 1
<1> DEFINE IsNext(n) ==
        /\ \A v \in DOMAIN version : version[v].number < n
        /\ n = 1 \/ \E v \in DOMAIN version : version[v].number = n - 1
<1>1. Len(version) \in Nat /\ DOMAIN version = 1 .. Len(version)
  BY RowFacts
<1>2. \A v \in DOMAIN version : version[v].number = v
  BY DEF NumbersFollowInsertion
<1>3. Len(version) + 1 \in 1 .. Len(version) + 1 /\ IsNext(Len(version) + 1)
  <2>1. CASE Len(version) = 0
    BY <1>1, <1>2, <2>1
  <2>2. CASE Len(version) # 0
    <3>1. Len(version) \in DOMAIN version
      BY <1>1, <2>2
    <3>2. \A v \in DOMAIN version : version[v].number < Len(version) + 1
      BY <1>1, <1>2
    <3>3. version[Len(version)].number = (Len(version) + 1) - 1
      BY <1>1, <1>2, <3>1
    <3> QED BY <1>1, <3>1, <3>2, <3>3
  <2> QED BY <2>1, <2>2
<1>4. ASSUME NEW n \in 1 .. Len(version) + 1, IsNext(n)
      PROVE  n = Len(version) + 1
  <2>1. CASE Len(version) = 0
    BY <1>1, <2>1
  <2>2. CASE Len(version) # 0
    <3>1. Len(version) \in DOMAIN version
      BY <1>1, <2>2
    <3>2. version[Len(version)].number < n
      BY <1>4, <3>1
    <3>3. Len(version) < n
      BY <1>2, <3>1, <3>2
    <3> QED BY <1>1, <3>3
  <2> QED BY <2>1, <2>2
<1>5. NextNumber = CHOOSE n \in 1 .. Len(version) + 1 : IsNext(n)
  BY DEF NextNumber
<1>6. NextNumber \in 1 .. Len(version) + 1 /\ IsNext(NextNumber)
  <2> HIDE DEF IsNext
  <2> QED BY <1>3, <1>5
<1> HIDE DEF IsNext
<1> QED BY <1>4, <1>6

-----------------------------------------------------------------------------
(* One lemma for each action that writes a row, one for all the others. *)

\* A step that leaves the rows alone and lets a session remember what is true
\* keeps the invariant.
LEMMA RequestsKeep ==
    ASSUME OutlineInv, NEW s \in Sessions, NEW r \in Revisions,
           UNCHANGED <<version, official>>, RevisionGoes(s, r),
           r.base <= Len(version),
           r.pc = "inserting" => r.number \in 1 .. Len(version) + 1,
           r.pc = "approving" => /\ r.target \in DOMAIN version
                                 /\ r.base = version[r.target].base
    PROVE  OutlineInv'
<1>1. OutlineTypeOK'
  BY DEF OutlineInv, OutlineTypeOK, RevisionGoes
<1>2. Bases'
  BY DEF OutlineInv, OutlineTypeOK, Bases, RevisionGoes
<1>3. (NumbersFollowInsertion /\ FirstIsApproved /\ OfficialLineage)'
  BY DEF OutlineInv, NumbersFollowInsertion, FirstIsApproved, OfficialLineage,
         IsOfficial
<1> QED BY <1>1, <1>2, <1>3 DEF OutlineInv

\* A candidate that is inserted has the next number, and its base is older.
LEMMA InsertKeeps ==
    ASSUME OutlineInv, NEW s \in Sessions, InsertCandidate(s)
    PROVE  OutlineInv'
<1> DEFINE row == [number |-> revising[s].number, status |-> "candidate",
                   base |-> revising[s].base]
<1> DEFINE N == Len(version)
<1>1. OutlineTypeOK /\ Bases /\ NumbersFollowInsertion
  BY DEF OutlineInv
<1>2. N \in Nat /\ DOMAIN version = 1 .. N /\ official \in Nat /\ official <= N
  BY <1>1, RowFacts DEF OutlineTypeOK
<1>3. revising[s] \in Revisions
  BY <1>1 DEF OutlineTypeOK
<1>4. row \in VersionRows /\ revising[s].base <= N
  BY <1>1, <1>3 DEF Bases, Revisions, VersionRows
<1>5. revising[s].number = N + 1
  <2>1. revising[s].number \in 1 .. N + 1
    BY <1>1 DEF Bases, InsertCandidate
  <2>2. \A v \in 1 .. N : v # revising[s].number
    BY <1>1, <1>2 DEF InsertCandidate, NumberIsFree, NumbersFollowInsertion
  <2> QED BY <1>2, <2>1, <2>2
<1>6. /\ version' = Append(version, row)
      /\ revising' = [revising EXCEPT ![s] = NoRevision]
      /\ official' = official
  BY DEF InsertCandidate, RevisionGoes
<1>7. /\ version' \in Seq(VersionRows)
      /\ Len(version') = N + 1
      /\ DOMAIN version' = 1 .. N + 1
      /\ \A v \in 1 .. N : version'[v] = version[v]
      /\ version'[N + 1] = row
  <2>1. version \in Seq(VersionRows)
    BY <1>1 DEF OutlineTypeOK
  <2> HIDE DEF row
  <2> QED BY <1>2, <1>4, <1>6, <2>1
<1>8. NoRevision \in Revisions
  BY DEF NoRevision, Revisions
<1>9. OutlineTypeOK'
  BY <1>1, <1>2, <1>6, <1>7, <1>8 DEF OutlineTypeOK
<1>10. Bases'
  <2>1. \A v \in DOMAIN version' : version'[v].base < v
    BY <1>1, <1>2, <1>3, <1>4, <1>7 DEF Bases, Revisions
  <2>2. ASSUME NEW t \in Sessions
        PROVE  /\ revising'[t].base <= N + 1
               /\ revising'[t].pc = "inserting" =>
                      revising'[t].number \in 1 .. (N + 1) + 1
               /\ revising'[t].pc = "approving" =>
                      /\ revising'[t].target \in 1 .. N + 1
                      /\ revising'[t].base = version'[revising'[t].target].base
    <3>1. CASE t = s
      <4>1. revising'[t] = NoRevision
        BY <1>1, <1>6, <3>1 DEF OutlineTypeOK
      <4> QED BY <1>2, <4>1 DEF NoRevision
    <3>2. CASE t # s
      <4>1. revising'[t] = revising[t] /\ revising[t] \in Revisions
        BY <1>1, <1>6, <3>2 DEF OutlineTypeOK
      <4>2. revising[t].base \in Nat /\ revising[t].number \in Nat
        BY <4>1 DEF Revisions
      <4> HIDE DEF row
      <4> QED BY <1>1, <1>2, <1>7, <4>1, <4>2 DEF Bases
    <3> QED BY <3>1, <3>2
  <2> QED BY <1>7, <2>1, <2>2 DEF Bases
<1>11. NumbersFollowInsertion'
  BY <1>1, <1>2, <1>5, <1>7 DEF NumbersFollowInsertion
<1>12. FirstIsApproved'
  BY <1>2, <1>6, <1>7 DEF OutlineInv, FirstIsApproved
<1>13. OfficialLineage'
  <2>1. \A v \in 1 .. N : version[v].base < v /\ version[v].base \in Nat
    BY <1>1, <1>2, RowFacts DEF Bases
  <2>2. \A v \in 1 .. N + 1 : version'[v].status # "candidate" =>
            v \in 1 .. N /\ version'[v] = version[v]
    BY <1>2, <1>7
  <2>3. \A v \in 1 .. N : IsOfficial(v) <=> v = official
    BY <1>2 DEF OutlineInv, OfficialLineage
  <2>4. \A v \in 1 .. N + 1 : (version'[v].status = "official") <=> v = official
    <3>1. official # N + 1
      BY <1>2
    <3> QED BY <1>2, <1>7, <2>3, <3>1 DEF IsOfficial
  <2>5. \A v \in 1 .. N : version[v].status # "candidate" /\ version[v].base # 0
            => version'[version[v].base].status = "superseded"
    <3>1. \A v \in 1 .. N : version[v].status # "candidate" /\ version[v].base # 0
              => version[version[v].base].status = "superseded"
      BY <1>2 DEF OutlineInv, OfficialLineage
    <3> QED BY <1>2, <1>7, <2>1, <3>1
  <2>6. \A v, w \in 1 .. N :
            /\ version[v].status # "candidate" /\ version[w].status # "candidate"
            /\ version[v].base = version[w].base
            => v = w
    BY <1>2 DEF OutlineInv, OfficialLineage
  <2> HIDE DEF row
  <2>7. \A v \in DOMAIN version' : IsOfficial(v)' <=> v = official'
    BY <1>6, <1>7, <2>4 DEF IsOfficial
  <2>8. \A v \in DOMAIN version' :
            version'[v].status # "candidate" /\ version'[v].base # 0 =>
                version'[version'[v].base].status = "superseded"
    BY <1>7, <2>2, <2>5
  <2>9. \A v, w \in DOMAIN version' :
            /\ version'[v].status # "candidate" /\ version'[w].status # "candidate"
            /\ version'[v].base = version'[w].base
            => v = w
    BY <1>7, <2>2, <2>6
  <2> QED BY <2>7, <2>8, <2>9 DEF OfficialLineage
<1> QED BY <1>9, <1>10, <1>11, <1>12, <1>13 DEF OutlineInv

\* The version that is approved is a candidate still, for its base is official
\* still: had it been approved, its base would be superseded.
LEMMA TargetIsCandidate ==
    ASSUME OutlineInv, NEW v \in DOMAIN version, PointerMatches(version[v].base)
    PROVE  version[v].status = "candidate"
<1> DEFINE base == version[v].base
<1>1. base \in Nat /\ base < v /\ DOMAIN version = 1 .. Len(version)
      /\ Len(version) \in Nat
  BY RowFacts DEF OutlineInv, Bases
<1>2. official = base
  BY DEF PointerMatches
<1>3. CASE base = 0
  BY <1>2, <1>3 DEF OutlineInv, FirstIsApproved
<1>4. CASE base # 0
  <2>1. base \in DOMAIN version
    BY <1>1, <1>4
  <2>2. version[base].status = "official"
    BY <1>2, <2>1 DEF OutlineInv, OfficialLineage, IsOfficial
  <2> QED BY <1>4, <2>2 DEF OutlineInv, OfficialLineage
<1> QED BY <1>3, <1>4

LEMMA ApproveKeeps ==
    ASSUME OutlineInv, NEW s \in Sessions, ApproveOutline(s)
    PROVE  OutlineInv'
<1> DEFINE t == revising[s].target
           base == revising[s].base
           N == Len(version)
<1>1. OutlineTypeOK /\ Bases /\ NumbersFollowInsertion /\ OfficialLineage
  BY DEF OutlineInv
<1>2. N \in Nat /\ DOMAIN version = 1 .. N /\ official \in Nat /\ official <= N
  BY <1>1, RowFacts DEF OutlineTypeOK
<1>3. t \in 1 .. N /\ base = version[t].base /\ base \in Nat /\ base < t
  BY <1>1, <1>2, RowFacts DEF ApproveOutline, Bases
<1>4. official = base
  BY DEF ApproveOutline, PointerMatches
<1>5. version[t].status = "candidate"
  BY <1>2, <1>3, TargetIsCandidate DEF ApproveOutline
<1>6. /\ official' = t
      /\ version' = [i \in 1 .. N |->
             IF i = t THEN [version[i] EXCEPT !.status = "official"]
             ELSE IF i = base THEN [version[i] EXCEPT !.status = "superseded"]
             ELSE version[i]]
      /\ revising' = [revising EXCEPT ![s] = NoRevision]
  BY <1>2 DEF ApproveOutline, RevisionGoes
<1>7. \A i \in 1 .. N :
        /\ version[i] \in VersionRows
        /\ version'[i] \in VersionRows
        /\ version'[i].number = version[i].number
        /\ version'[i].base = version[i].base
        /\ version'[i].status = IF i = t THEN "official"
                               ELSE IF i = base THEN "superseded"
                               ELSE version[i].status
  <2>1. \A i \in 1 .. N : version[i] \in VersionRows
    BY <1>1, <1>2, RowFacts
  <2> QED BY <1>6, <2>1 DEF VersionRows
<1>8. DOMAIN version' = 1 .. N /\ Len(version') = N /\ version' \in Seq(VersionRows)
  <2>1. version' \in [1 .. N -> VersionRows]
    BY <1>6, <1>7
  <2>2. version' \in Seq(VersionRows)
    BY <1>2, <2>1
  <2>3. Len(version') \in Nat /\ DOMAIN version' = 1 .. Len(version')
    BY <2>2
  <2> QED BY <1>2, <2>1, <2>2, <2>3
<1>9. NoRevision \in Revisions
  BY DEF NoRevision, Revisions
<1>10. OutlineTypeOK'
  BY <1>1, <1>2, <1>3, <1>6, <1>8, <1>9 DEF OutlineTypeOK
<1>11. Bases'
  <2>1. \A v \in 1 .. N : version'[v].base < v
    BY <1>1, <1>2, <1>7 DEF Bases
  <2>2. ASSUME NEW u \in Sessions
        PROVE  /\ revising'[u].base <= N
               /\ revising'[u].pc = "inserting" => revising'[u].number \in 1 .. N + 1
               /\ revising'[u].pc = "approving" =>
                      /\ revising'[u].target \in 1 .. N
                      /\ revising'[u].base = version'[revising'[u].target].base
    <3>1. CASE u = s
      <4>1. revising'[u] = NoRevision
        BY <1>1, <1>6, <3>1 DEF OutlineTypeOK
      <4> QED BY <1>2, <4>1 DEF NoRevision
    <3>2. CASE u # s
      <4>1. revising'[u] = revising[u]
        BY <1>1, <1>6, <3>2 DEF OutlineTypeOK
      <4> QED BY <1>1, <1>2, <1>7, <4>1 DEF Bases
    <3> QED BY <3>1, <3>2
  <2> QED BY <1>8, <2>1, <2>2 DEF Bases
<1>12. NumbersFollowInsertion'
  BY <1>1, <1>2, <1>7, <1>8 DEF NumbersFollowInsertion
<1>13. FirstIsApproved'
  BY <1>3, <1>6 DEF FirstIsApproved
<1>14. OfficialLineage'
  <2>1. \A v \in 1 .. N : version[v].status = "official" <=> v = official
    BY <1>1, <1>2 DEF OfficialLineage, IsOfficial
  <2>2. \A v \in 1 .. N : version'[v].status = "official" <=> v = t
    BY <1>3, <1>4, <1>7, <2>1
  <2>3. \A v \in 1 .. N : version'[v].status # "candidate" =>
            v = t \/ version[v].status # "candidate"
    BY <1>2, <1>3, <1>4, <1>7, <2>1
  <2>4. \A v \in 1 .. N : version[v].status # "candidate" /\ version[v].base # 0 =>
            version[version[v].base].status = "superseded"
    BY <1>1, <1>2 DEF OfficialLineage
  <2>5. \A v \in 1 .. N : version[v].base \in Nat /\ version[v].base < v
    BY <1>1, <1>2, RowFacts DEF Bases
  <2>6. ASSUME NEW v \in 1 .. N, version'[v].status # "candidate",
               version'[v].base # 0
        PROVE  version'[version'[v].base].status = "superseded"
    <3>1. version'[v].base = version[v].base /\ version[v].base \in 1 .. N
      BY <1>2, <1>6, <1>7, <2>5, <2>6
    <3>2. CASE v = t
      BY <1>3, <1>7, <3>1, <3>2
    <3>3. CASE v # t
      <4>1. version[version[v].base].status = "superseded"
        BY <2>3, <2>4, <2>6, <3>1, <3>3
      <4>2. version[v].base # t
        BY <1>5, <4>1
      <4> QED BY <1>7, <3>1, <4>1, <4>2
    <3> QED BY <3>2, <3>3
  <2>7. \A v \in 1 .. N : version[v].status # "candidate" => version[v].base # base
    <3>1. CASE base = 0
      BY <1>2, <1>4, <3>1 DEF OutlineInv, FirstIsApproved
    <3>2. CASE base # 0
      <4>1. version[base].status = "official"
        BY <1>2, <1>3, <1>4, <2>1, <3>2
      <4> QED BY <2>4, <3>2, <4>1
    <3> QED BY <3>1, <3>2
  <2>8. ASSUME NEW v \in 1 .. N, NEW w \in 1 .. N,
               version'[v].status # "candidate", version'[w].status # "candidate",
               version'[v].base = version'[w].base
        PROVE  v = w
    <3>1. \A x, y \in 1 .. N :
            /\ version[x].status # "candidate" /\ version[y].status # "candidate"
            /\ version[x].base = version[y].base
            => x = y
      BY <1>1, <1>2 DEF OfficialLineage
    <3>2. version[v].base = version[w].base
      BY <1>7, <2>8
    <3> QED BY <1>3, <2>3, <2>7, <2>8, <3>1, <3>2
  <2>9. \A v \in DOMAIN version' : IsOfficial(v)' <=> v = official'
    BY <1>6, <1>8, <2>2 DEF IsOfficial
  <2>10. \A v \in DOMAIN version' :
             version'[v].status # "candidate" /\ version'[v].base # 0 =>
                 version'[version'[v].base].status = "superseded"
    BY <1>8, <2>6
  <2>11. \A v, w \in DOMAIN version' :
             /\ version'[v].status # "candidate" /\ version'[w].status # "candidate"
             /\ version'[v].base = version'[w].base
             => v = w
    BY <1>8, <2>8
  <2> QED BY <2>9, <2>10, <2>11 DEF OfficialLineage
<1> QED BY <1>10, <1>11, <1>12, <1>13, <1>14 DEF OutlineInv

-----------------------------------------------------------------------------
(* The theorems. *)

\* A session's step keeps the invariant, whatever the other sessions have read.
LEMMA StepKeeps ==
    ASSUME OutlineInv, NEW s \in Sessions, OutlineStep(s)
    PROVE  OutlineInv'
<1>1. /\ OutlineTypeOK /\ Bases /\ revising[s] \in Revisions
      /\ Len(version) \in Nat /\ official \in 0 .. Len(version)
  BY RowFacts DEF OutlineInv, OutlineTypeOK
<1>2. NoRevision \in Revisions /\ NoRevision.base = 0 /\ NoRevision.pc = "idle"
  BY DEF NoRevision, Revisions
<1>3. ASSUME NEW attempt \in Nat, ReadsBase(s, attempt), UNCHANGED <<version, official>>
      PROVE  OutlineInv'
  <2> DEFINE r == [NoRevision EXCEPT !.pc = "numbering", !.base = official,
                                     !.attempt = attempt]
  <2>1. r \in Revisions /\ r.base = official /\ r.pc = "numbering"
    <3>1. official \in Nat
      BY <1>1
    <3> QED BY <1>2, <1>3, <3>1 DEF Revisions
  <2>2. RevisionGoes(s, r) /\ r.base <= Len(version)
    BY <1>1, <1>3, <2>1 DEF ReadsBase
  <2> HIDE DEF r
  <2> QED BY <1>3, <2>1, <2>2, RequestsKeep
<1>4. ASSUME RevisionGoes(s, NoRevision), UNCHANGED <<version, official>>
      PROVE  OutlineInv'
  BY <1>1, <1>2, <1>4, RequestsKeep
<1>5. CASE ReadBase(s)
  BY <1>3, <1>5 DEF ReadBase
<1>6. CASE ReadNumber(s)
  <2> DEFINE r == [revising[s] EXCEPT !.pc = "inserting", !.number = NextNumber]
  <2>1. NextNumber = Len(version) + 1
    BY NextNumberFollows DEF OutlineInv
  <2>2. /\ r \in Revisions /\ r.pc = "inserting" /\ r.base = revising[s].base
        /\ r.number = Len(version) + 1
    <3>1. NextNumber \in Nat
      BY <1>1, <2>1
    <3>2. /\ revising[s].target \in Nat /\ revising[s].base \in Nat
          /\ revising[s].attempt \in Nat
      BY <1>1 DEF Revisions
    <3> QED BY <1>1, <2>1, <3>1, <3>2 DEF Revisions
  <2>3. r.base <= Len(version) /\ r.number \in 1 .. Len(version) + 1
    BY <1>1, <2>2 DEF Bases
  <2>4. CASE RevisionGoes(s, r)
    <3> HIDE DEF r
    <3> QED BY <1>6, <2>2, <2>3, <2>4, RequestsKeep DEF ReadNumber
  <2>5. CASE RevisionGoes(s, NoRevision)
    BY <1>4, <1>6, <2>5 DEF ReadNumber
  <2> QED BY <1>6, <2>4, <2>5 DEF ReadNumber
<1>7. CASE InsertCandidate(s)
  BY <1>7, InsertKeeps
<1>8. CASE RetryNumber(s)
  <2>1. revising[s].attempt + 1 \in Nat
    BY <1>1 DEF Revisions
  <2> QED BY <1>3, <1>4, <1>8, <2>1 DEF RetryNumber
<1>9. CASE ReadCandidate(s)
  <2>1. PICK v \in DOMAIN version :
            RevisionGoes(s, [NoRevision EXCEPT !.pc = "approving", !.target = v,
                                               !.base = version[v].base])
    BY <1>9 DEF ReadCandidate
  <2> DEFINE r == [NoRevision EXCEPT !.pc = "approving", !.target = v,
                                     !.base = version[v].base]
  <2>2. v \in 1 .. Len(version) /\ version[v].base \in Nat /\ version[v].base < v
    <3>1. DOMAIN version = 1 .. Len(version) /\ version[v].base \in Nat
      BY <1>1, RowFacts
    <3> QED BY <1>1, <3>1 DEF Bases
  <2>3. /\ r \in Revisions /\ r.pc = "approving" /\ r.target = v
        /\ r.base = version[v].base
    <3>1. v \in Nat /\ version[v].base \in Nat
      BY <1>1, <2>2
    <3> QED BY <1>2, <3>1 DEF Revisions
  <2>4. r.base <= Len(version)
    BY <1>1, <2>2, <2>3
  <2>5. RevisionGoes(s, r) /\ UNCHANGED <<version, official>>
    BY <1>9, <2>1 DEF ReadCandidate
  <2> HIDE DEF r
  <2> QED BY <2>3, <2>4, <2>5, RequestsKeep
<1>10. CASE ApproveOutline(s)
  BY <1>10, ApproveKeeps
<1>11. CASE RefuseOutline(s)
  BY <1>4, <1>11 DEF RefuseOutline
<1> QED BY <1>5, <1>6, <1>7, <1>8, <1>9, <1>10, <1>11 DEF OutlineStep

LEMMA InitHolds == OutlineInit => OutlineInv
<1> SUFFICES ASSUME OutlineInit PROVE OutlineInv
  OBVIOUS
<1>1. version = <<>> /\ Len(version) = 0 /\ DOMAIN version = {} /\ official = 0
  BY DEF OutlineInit
<1>2. NoRevision \in Revisions
  BY DEF NoRevision, Revisions
<1>3. OutlineTypeOK
  BY <1>1, <1>2 DEF OutlineInit, OutlineTypeOK
<1>4. Bases
  BY <1>1 DEF OutlineInit, Bases, NoRevision
<1>5. NumbersFollowInsertion /\ FirstIsApproved /\ OfficialLineage
  BY <1>1 DEF NumbersFollowInsertion, FirstIsApproved, OfficialLineage
<1> QED BY <1>3, <1>4, <1>5 DEF OutlineInv

LEMMA StutterKeeps == OutlineInv /\ UNCHANGED outlineVars => OutlineInv'
<1> SUFFICES ASSUME OutlineInv, UNCHANGED outlineVars PROVE OutlineInv'
  OBVIOUS
<1>1. version' = version /\ official' = official /\ revising' = revising
  BY DEF outlineVars
<1> QED BY <1>1 DEF OutlineInv, OutlineTypeOK, Bases, NumbersFollowInsertion,
                    FirstIsApproved, OfficialLineage, IsOfficial

\* OutlineInv is an invariant of the sessions that make and approve versions.
THEOREM OutlineInductive == OutlineSpec => []OutlineInv
<1>1. OutlineInv /\ [OutlineNext]_outlineVars => OutlineInv'
  BY StepKeeps, StutterKeeps DEF OutlineNext
<1> QED BY <1>1, InitHolds, PTL DEF OutlineSpec

\* For any number of sessions the official outlines form one line: the pointer
\* names the official version, and no version is replaced twice
\* (services/outlines.py: approve).
THEOREM OutlineLineage == OutlineSpec => []OfficialLineage
<1>1. OutlineInv => OfficialLineage
  BY DEF OutlineInv
<1> QED BY <1>1, OutlineInductive, PTL

\* Versions are numbered as they were inserted, although create_candidate reads
\* the number before it inserts the row (services/outlines.py:
\* create_candidate).
THEOREM OutlineNumbers == OutlineSpec => []NumbersFollowInsertion
<1>1. OutlineInv => NumbersFollowInsertion
  BY DEF OutlineInv
<1> QED BY <1>1, OutlineInductive, PTL
=============================================================================
