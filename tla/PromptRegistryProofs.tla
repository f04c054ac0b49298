------------------------ MODULE PromptRegistryProofs ------------------------
(***************************************************************************)
(* What holds of the prompt versions for every set of roles and every      *)
(* number of sessions, versions, attempts and workflows.                   *)
(***************************************************************************)
EXTENDS PromptRegistry, SequenceTheorems, TLAPS

-----------------------------------------------------------------------------
(* The inductive invariant. *)

\* The rows of one role.
ActiveIn(rows) == {v \in DOMAIN rows : rows[v].active}
Sound(rows) ==
    /\ rows \in Seq(PromptRows)
    /\ \A v \in DOMAIN rows : rows[v].number = v
    /\ \A v, w \in ActiveIn(rows) : v = w

\* What a session has read is true of rows that only grow: a number that is
\* free when it is used is the next one, and the version to activate and the
\* one it replaces exist.
Remembers(s) ==
    LET c == call[s]
    IN  /\ c.pc = "creating" => c.number \in 1 .. Len(prompt[c.role]) + 1
        /\ c.pc = "activating" =>
              /\ c.target \in DOMAIN prompt[c.role]
              /\ c.current \in {0} \cup DOMAIN prompt[c.role]
        /\ c.pc = "starting" => \A r \in Roles : ActiveIn(prompt[r]) # {}

RegistryInv ==
    /\ TypeOK
    /\ \A r \in Roles : Sound(prompt[r])
    /\ \A s \in Sessions : Remembers(s)

-----------------------------------------------------------------------------
(* Lemmas about the rows of a role. *)

LEMMA Lengths ==
    ASSUME NEW rows \in Seq(PromptRows)
    PROVE  /\ Len(rows) \in Nat /\ DOMAIN rows = 1 .. Len(rows)
           /\ \A v \in DOMAIN rows : /\ rows[v] \in PromptRows /\ v \in Nat /\ v # 0
                                     /\ rows[v].active \in BOOLEAN
<1>1. Len(rows) \in Nat /\ DOMAIN rows = 1 .. Len(rows)
  BY LenProperties
<1>2. \A v \in DOMAIN rows : rows[v] \in PromptRows /\ v \in Nat /\ v # 0
  BY <1>1, ElementOfSeq
<1> QED BY <1>1, <1>2 DEF PromptRows

\* The greatest number of the rows is that of the last one.
LEMMA NumberFollows ==
    ASSUME NEW rows, Sound(rows)
    PROVE  NumberAfter(rows) = Len(rows) + 1
<1> DEFINE last == Len(rows)
           IsNext(n) == /\ \A v \in DOMAIN rows : rows[v].number < n
                        /\ n = 1 \/ \E v \in DOMAIN rows : rows[v].number = n - 1
<1>1. last \in Nat /\ DOMAIN rows = 1 .. last
  BY Lengths DEF Sound
<1>2. \A v \in DOMAIN rows : rows[v].number = v
  BY DEF Sound
<1>3. last + 1 \in 1 .. last + 1 /\ IsNext(last + 1)
  <2>1. CASE last = 0
    BY <1>1, <2>1
  <2>2. CASE last # 0
    <3>1. last \in DOMAIN rows
      BY <1>1, <2>2
    <3>2. \A v \in DOMAIN rows : rows[v].number < last + 1
      BY <1>1, <1>2
    <3>3. rows[last].number = (last + 1) - 1
      BY <1>1, <1>2, <3>1
    <3> QED BY <1>1, <3>1, <3>2, <3>3
  <2> QED BY <2>1, <2>2
<1>4. ASSUME NEW n \in 1 .. last + 1, IsNext(n)
      PROVE  n = last + 1
  <2>1. CASE last = 0
    BY <1>1, <2>1
  <2>2. CASE last # 0
    <3>1. last \in DOMAIN rows
      BY <1>1, <2>2
    <3>2. rows[last].number < n /\ rows[last].number = last
      BY <1>2, <1>4, <3>1
    <3> QED BY <1>1, <3>2
  <2> QED BY <2>1, <2>2
<1>5. NumberAfter(rows) = CHOOSE n \in 1 .. last + 1 : IsNext(n)
  BY DEF NumberAfter
<1>6. NumberAfter(rows) \in 1 .. last + 1 /\ IsNext(NumberAfter(rows))
  <2> HIDE DEF IsNext, last
  <2> QED BY <1>3, <1>5
<1> HIDE DEF IsNext, last
<1>7. NumberAfter(rows) = last + 1
  BY <1>4, <1>6
<1> QED BY <1>7 DEF last

\* A version that is inserted with the next number is not active.
LEMMA InsertedIsSound ==
    ASSUME NEW rows, Sound(rows), NEW body \in Bodies
    PROVE  LET longer == Append(rows, Row(body, Len(rows) + 1))
           IN  /\ Sound(longer)
               /\ ActiveIn(longer) = ActiveIn(rows)
               /\ Len(longer) = Len(rows) + 1
<1> DEFINE row == Row(body, Len(rows) + 1)
           longer == Append(rows, row)
<1>1. rows \in Seq(PromptRows) /\ Len(rows) \in Nat /\ DOMAIN rows = 1 .. Len(rows)
  BY Lengths DEF Sound
<1>2. row \in PromptRows /\ row.number = Len(rows) + 1 /\ row.active = FALSE
  BY <1>1 DEF Row, PromptRows
<1> HIDE DEF row
<1>3. /\ longer \in Seq(PromptRows) /\ Len(longer) = Len(rows) + 1
      /\ \A v \in DOMAIN rows : longer[v] = rows[v]
      /\ longer[Len(rows) + 1] = row
  BY <1>1, <1>2, AppendProperties
<1> HIDE DEF longer
<1>4. DOMAIN longer = DOMAIN rows \cup {Len(rows) + 1}
  BY <1>1, <1>3, Lengths
<1>5. ActiveIn(longer) = ActiveIn(rows)
  BY <1>2, <1>3, <1>4 DEF ActiveIn
<1>6. \A v \in DOMAIN longer : longer[v].number = v
  BY <1>2, <1>3, <1>4 DEF Sound
<1>7. Sound(longer)
  BY <1>3, <1>5, <1>6 DEF Sound
<1> QED BY <1>3, <1>5, <1>7 DEF longer, row

\* Numbers and length do not change with a flag.
LEMMA MarkedRow ==
    ASSUME NEW rows \in Seq(PromptRows), NEW v \in DOMAIN rows, NEW active \in BOOLEAN,
           \A w \in DOMAIN rows : rows[w].number = w
    PROVE  LET marked == Marked(rows, v, active)
           IN  /\ marked \in Seq(PromptRows) /\ DOMAIN marked = DOMAIN rows
               /\ Len(marked) = Len(rows)
               /\ \A w \in DOMAIN rows : marked[w].number = w
               /\ \A w \in DOMAIN rows :
                     w \in ActiveIn(marked) <=>
                         IF w = v THEN active ELSE w \in ActiveIn(rows)
<1> DEFINE row == [rows[v] EXCEPT !.active = active]
           marked == Marked(rows, v, active)
<1>1. /\ Len(rows) \in Nat /\ DOMAIN rows = 1 .. Len(rows)
      /\ rows[v] \in PromptRows /\ v # 0
  BY Lengths
<1>2. row \in PromptRows /\ row.number = rows[v].number /\ row.active = active
  BY <1>1 DEF PromptRows
<1>3. marked = [rows EXCEPT ![v] = row]
  BY <1>1 DEF Marked
<1> HIDE DEF row, marked
<1>4. /\ marked \in Seq(PromptRows) /\ Len(marked) = Len(rows)
      /\ \A w \in DOMAIN rows : marked[w] = IF w = v THEN row ELSE rows[w]
  BY <1>1, <1>2, <1>3, ExceptSeq
<1>5. DOMAIN marked = DOMAIN rows
  BY <1>1, <1>4, Lengths
<1>6. \A w \in DOMAIN rows : marked[w].number = w
  BY <1>2, <1>4
<1>7. \A w \in DOMAIN rows : w \in ActiveIn(marked) <=>
                                 IF w = v THEN active ELSE w \in ActiveIn(rows)
  BY <1>2, <1>4, <1>5 DEF ActiveIn
<1> QED BY <1>4, <1>5, <1>6, <1>7 DEF marked

\* The activation of a version, when the one it replaces is the active one.
LEMMA ActivatedIsSound ==
    ASSUME NEW rows, Sound(rows), NEW target \in DOMAIN rows,
           NEW current \in {0} \cup DOMAIN rows,
           current = 0 => ActiveIn(rows) = {},
           current # 0 => current \in ActiveIn(rows),
           target # current
    PROVE  LET new == Marked(Marked(rows, current, FALSE), target, TRUE)
           IN  Sound(new) /\ ActiveIn(new) = {target} /\ Len(new) = Len(rows)
<1> DEFINE off == Marked(rows, current, FALSE)
           new == Marked(off, target, TRUE)
<1>1. rows \in Seq(PromptRows) /\ \A w \in DOMAIN rows : rows[w].number = w
  BY DEF Sound
<1>2. /\ off \in Seq(PromptRows) /\ DOMAIN off = DOMAIN rows /\ Len(off) = Len(rows)
      /\ \A w \in DOMAIN off : off[w].number = w
      /\ ActiveIn(off) = {}
  <2>1. CASE current = 0
    BY <1>1, <2>1 DEF Marked
  <2>2. CASE current # 0
    <3>1. /\ off \in Seq(PromptRows) /\ DOMAIN off = DOMAIN rows /\ Len(off) = Len(rows)
          /\ \A w \in DOMAIN rows : off[w].number = w
          /\ \A w \in DOMAIN rows : w \in ActiveIn(off) <=>
                                        w # current /\ w \in ActiveIn(rows)
      BY <1>1, <2>2, MarkedRow
    <3>2. \A w \in ActiveIn(rows) : w = current
      BY <2>2 DEF Sound
    <3>3. ActiveIn(off) \subseteq DOMAIN off
      BY DEF ActiveIn
    <3> HIDE DEF off
    <3> QED BY <3>1, <3>2, <3>3
  <2> QED BY <2>1, <2>2
<1> HIDE DEF off
<1>3. /\ new \in Seq(PromptRows) /\ DOMAIN new = DOMAIN off /\ Len(new) = Len(off)
      /\ \A w \in DOMAIN off : new[w].number = w
      /\ \A w \in DOMAIN off : w \in ActiveIn(new) <=> w = target
  BY <1>2, MarkedRow
<1>4. ActiveIn(new) \subseteq DOMAIN new
  BY DEF ActiveIn
<1> HIDE DEF new
<1>5. ActiveIn(new) = {target}
  BY <1>2, <1>3, <1>4
<1>6. Sound(new)
  BY <1>2, <1>3, <1>5 DEF Sound
<1> QED BY <1>2, <1>3, <1>5, <1>6 DEF new, off

\* Seeding keeps the rows sound: whatever the rows were, one version is active.
LEMMA WithBuiltinIsSound ==
    ASSUME NEW rows, Sound(rows)
    PROVE  /\ Sound(WithBuiltin(rows))
           /\ ActiveIn(WithBuiltin(rows)) = ActiveIn(rows)
           /\ Len(rows) <= Len(WithBuiltin(rows))
<1>1. Len(rows) \in Nat
  BY Lengths DEF Sound
<1>2. CASE Builtins(rows) # {}
  BY <1>1, <1>2 DEF WithBuiltin
<1>3. CASE Builtins(rows) = {}
  <2>1. WithBuiltin(rows) = Append(rows, Row("builtin", Len(rows) + 1))
    BY <1>3, NumberFollows DEF WithBuiltin
  <2> QED BY <1>1, <2>1, InsertedIsSound DEF Bodies
<1> QED BY <1>2, <1>3

LEMMA SwitchedOff ==
    ASSUME NEW rows, Sound(rows)
    PROVE  LET off == [v \in DOMAIN rows |-> [rows[v] EXCEPT !.active = FALSE]]
           IN  Sound(off) /\ ActiveIn(off) = {} /\ Len(off) = Len(rows)
<1> DEFINE off == [v \in DOMAIN rows |-> [rows[v] EXCEPT !.active = FALSE]]
<1>1. /\ Len(rows) \in Nat /\ DOMAIN rows = 1 .. Len(rows)
      /\ \A v \in DOMAIN rows : rows[v] \in PromptRows /\ rows[v].number = v
  BY Lengths DEF Sound
<1>2. \A v \in DOMAIN rows :
        /\ [rows[v] EXCEPT !.active = FALSE] \in PromptRows
        /\ [rows[v] EXCEPT !.active = FALSE].active = FALSE
        /\ [rows[v] EXCEPT !.active = FALSE].number = v
  BY <1>1 DEF PromptRows
<1>3. off \in [1 .. Len(rows) -> PromptRows]
  BY <1>1, <1>2
<1>4. off \in Seq(PromptRows) /\ Len(off) = Len(rows)
  <2> HIDE DEF off
  <2> QED BY <1>1, <1>3
<1>5. ActiveIn(off) = {}
  BY <1>1, <1>2 DEF ActiveIn
<1>6. Sound(off)
  BY <1>1, <1>2, <1>4, <1>5 DEF Sound
<1> QED BY <1>4, <1>5, <1>6

LEMMA SeededIsSound ==
    ASSUME NEW rows, Sound(rows), NEW seeded \in SeededRows(rows)
    PROVE  /\ Sound(seeded) /\ Len(rows) <= Len(seeded)
           /\ ActiveIn(seeded) # {}
           /\ ActiveIn(rows) # {} => ActiveIn(seeded) = ActiveIn(rows)
<1>1. LeavesActive(rows) <=> ActiveIn(rows) # {}
  BY DEF LeavesActive, HasActive, ActiveIn
<1>2. CASE LeavesActive(rows)
  <2>1. seeded = WithBuiltin(rows)
    BY <1>2 DEF SeededRows
  <2> QED BY <1>1, <1>2, <2>1, WithBuiltinIsSound
<1>3. CASE ~LeavesActive(rows)
  <2> DEFINE off == [v \in DOMAIN rows |-> [rows[v] EXCEPT !.active = FALSE]]
             new == WithBuiltin(off)
  <2>1. PICK v \in Builtins(new) : seeded = Marked(new, v, TRUE)
    BY <1>3 DEF SeededRows
  <2>2. Sound(off) /\ ActiveIn(off) = {} /\ Len(off) = Len(rows)
    BY SwitchedOff
  <2> HIDE DEF off
  <2>3. /\ Sound(new) /\ ActiveIn(new) = {} /\ Len(rows) <= Len(new)
        /\ v \in DOMAIN new
    BY <2>1, <2>2, WithBuiltinIsSound DEF Builtins
  <2> HIDE DEF new
  <2>4. /\ seeded \in Seq(PromptRows) /\ Len(seeded) = Len(new)
        /\ DOMAIN seeded = DOMAIN new
        /\ \A w \in DOMAIN new : seeded[w].number = w
        /\ \A w \in DOMAIN new : w \in ActiveIn(seeded) <=> w = v
    BY <2>1, <2>3, MarkedRow DEF Sound
  <2>5. ActiveIn(seeded) = {v}
    BY <2>3, <2>4 DEF ActiveIn
  <2>6. Sound(seeded)
    BY <2>4, <2>5 DEF Sound
  <2> QED BY <1>1, <1>3, <2>3, <2>4, <2>5, <2>6
<1> QED BY <1>2, <1>3

-----------------------------------------------------------------------------
(* Lemmas about the steps. *)

LEMMA CallColumns ==
    ASSUME RegistryInv, NEW s \in Sessions
    PROVE  /\ call[s] \in Calls
           /\ call[s].pc \in {"idle", "creating", "activating", "starting"}
           /\ call[s].role \in Roles /\ call[s].body \in Bodies
           /\ call[s].number \in Nat /\ call[s].attempt \in Nat
           /\ call[s].target \in Nat /\ call[s].current \in Nat
BY DEF RegistryInv, TypeOK, Calls

LEMMA NoCallType == NoCall \in Calls /\ NoCall.pc = "idle"
BY RegistryAssumption DEF NoCall, Calls, Bodies

\* Rows only grow, and a role with an active version keeps one.
RowsGrow ==
    /\ prompt' \in [Roles -> Seq(PromptRows)]
    /\ \A r \in Roles :
        /\ Sound(prompt'[r]) /\ Len(prompt[r]) <= Len(prompt'[r])
        /\ ActiveIn(prompt[r]) # {} => ActiveIn(prompt'[r]) # {}

LEMMA StepIsSound ==
    ASSUME RegistryInv, RowsGrow, NEW s \in Sessions, NEW c \in Calls,
           CallGoes(s, c), Remembers(s)', snapshot' \in Seq([Roles -> Nat])
    PROVE  RegistryInv'
<1>1. /\ prompt \in [Roles -> Seq(PromptRows)] /\ call \in [Sessions -> Calls]
      /\ \A d \in Sessions : Remembers(d)
  BY DEF RegistryInv, TypeOK
<1>2. /\ call' \in [Sessions -> Calls] /\ \A d \in Sessions \ {s} : call'[d] = call[d]
  BY <1>1 DEF CallGoes
<1>3. ASSUME NEW d \in Sessions, d # s
      PROVE  Remembers(d)'
  <2> DEFINE r == call[d].role
  <2>1. call'[d] = call[d] /\ r \in Roles /\ call[d].number \in Nat
    BY <1>2, <1>3, CallColumns
  <2>2. /\ Len(prompt[r]) \in Nat /\ Len(prompt'[r]) \in Nat
        /\ DOMAIN prompt[r] = 1 .. Len(prompt[r])
        /\ DOMAIN prompt'[r] = 1 .. Len(prompt'[r])
        /\ Len(prompt[r]) <= Len(prompt'[r])
    BY <1>1, <2>1, Lengths DEF RowsGrow
  <2> HIDE DEF r
  <2>3. /\ 1 .. Len(prompt[r]) + 1 \subseteq 1 .. Len(prompt'[r]) + 1
        /\ DOMAIN prompt[r] \subseteq DOMAIN prompt'[r]
    BY <2>2
  <2> USE DEF r
  <2> QED BY <1>1, <2>1, <2>3 DEF Remembers, RowsGrow
<1> QED BY <1>2, <1>3 DEF RegistryInv, TypeOK, RowsGrow

LEMMA RowsUnchanged ==
    ASSUME RegistryInv, prompt' = prompt
    PROVE  RowsGrow
BY Lengths DEF RegistryInv, TypeOK, RowsGrow

\* One role's rows are replaced by sound ones.
LEMMA OneRoleGrows ==
    ASSUME RegistryInv, NEW r \in Roles, NEW rows, Sound(rows),
           Len(prompt[r]) <= Len(rows),
           ActiveIn(prompt[r]) # {} => ActiveIn(rows) # {},
           prompt' = [prompt EXCEPT ![r] = rows]
    PROVE  RowsGrow
<1>1. /\ prompt \in [Roles -> Seq(PromptRows)] /\ rows \in Seq(PromptRows)
      /\ \A q \in Roles : Sound(prompt[q]) /\ Len(prompt[q]) \in Nat
  BY Lengths DEF RegistryInv, TypeOK, Sound
<1>2. /\ prompt' \in [Roles -> Seq(PromptRows)] /\ prompt'[r] = rows
      /\ \A q \in Roles \ {r} : prompt'[q] = prompt[q]
  BY <1>1
<1> QED BY <1>1, <1>2 DEF RowsGrow

\* A session that stops has nothing to remember.
LEMMA EndsSound ==
    ASSUME RegistryInv, RowsGrow, NEW s \in Sessions, CallEnds(s),
           snapshot' \in Seq([Roles -> Nat])
    PROVE  RegistryInv'
<1>1. NoCall \in Calls /\ CallGoes(s, NoCall)
  BY NoCallType DEF CallEnds
<1>2. call'[s].pc = "idle"
  BY <1>1, NoCallType DEF CallGoes, RegistryInv, TypeOK
<1>3. Remembers(s)'
  BY <1>2 DEF Remembers
<1> QED BY <1>1, <1>3, StepIsSound

LEMMA ReadNumberIsSound ==
    ASSUME RegistryInv, NEW s \in Sessions, ReadNumber(s)
    PROVE  RegistryInv'
<1>1. PICK r \in Roles, body \in Bodies :
         CallGoes(s, [call[s] EXCEPT !.pc = "creating", !.role = r, !.body = body,
                                     !.number = NumberAfter(prompt[r])])
  BY DEF ReadNumber
<1> DEFINE n == NumberAfter(prompt[r])
           c == [call[s] EXCEPT !.pc = "creating", !.role = r, !.body = body,
                                !.number = n]
<1>2. Len(prompt[r]) \in Nat /\ n = Len(prompt[r]) + 1
  BY Lengths, NumberFollows DEF RegistryInv, Sound
<1> HIDE DEF n
<1>3. n \in Nat /\ n \in 1 .. Len(prompt[r]) + 1
  BY <1>2
<1>4. c \in Calls /\ c.pc = "creating" /\ c.role = r /\ c.number = n
  BY <1>3, CallColumns DEF Calls
<1>5. CallGoes(s, c) /\ prompt' = prompt /\ snapshot' = snapshot
  BY <1>1 DEF ReadNumber, n
<1> HIDE DEF c
<1>6. call'[s] = c
  BY <1>5 DEF CallGoes, RegistryInv, TypeOK
<1>7. Remembers(s)'
  BY <1>3, <1>4, <1>5, <1>6 DEF Remembers
<1> QED BY <1>4, <1>5, <1>7, RowsUnchanged, StepIsSound DEF RegistryInv, TypeOK

LEMMA InsertIsSound ==
    ASSUME RegistryInv, NEW s \in Sessions, InsertVersion(s)
    PROVE  RegistryInv' /\ \A r \in Roles : ActiveIn(prompt'[r]) = ActiveIn(prompt[r])
<1> DEFINE r == call[s].role
           n == call[s].number
           body == call[s].body
           rows == Append(prompt[r], Row(body, n))
<1>1. /\ r \in Roles /\ body \in Bodies /\ Sound(prompt[r])
      /\ prompt \in [Roles -> Seq(PromptRows)]
  BY CallColumns DEF RegistryInv, TypeOK
<1>2. /\ n \in 1 .. Len(prompt[r]) + 1 /\ Len(prompt[r]) \in Nat
      /\ DOMAIN prompt[r] = 1 .. Len(prompt[r])
      /\ \A v \in DOMAIN prompt[r] : prompt[r][v].number = v
  BY <1>1, Lengths DEF RegistryInv, Remembers, InsertVersion, Sound
<1>3. NumberIsFree(r, n) /\ prompt' = [prompt EXCEPT ![r] = rows]
      /\ CallEnds(s) /\ snapshot' = snapshot
  BY DEF InsertVersion
<1>4. n = Len(prompt[r]) + 1
  BY <1>2, <1>3 DEF NumberIsFree, Versions
<1>5. /\ Sound(rows) /\ ActiveIn(rows) = ActiveIn(prompt[r])
      /\ Len(prompt[r]) <= Len(rows)
  <2>1. rows = Append(prompt[r], Row(body, Len(prompt[r]) + 1))
    BY <1>4
  <2> HIDE DEF rows, r, body, n
  <2>2. /\ Sound(rows) /\ ActiveIn(rows) = ActiveIn(prompt[r])
        /\ Len(rows) = Len(prompt[r]) + 1
    BY <1>1, <2>1, InsertedIsSound
  <2> QED BY <1>2, <2>2
<1> HIDE DEF rows, r
<1>6. RowsGrow
  BY <1>1, <1>3, <1>5, OneRoleGrows
<1>7. \A q \in Roles : ActiveIn(prompt'[q]) = ActiveIn(prompt[q])
  BY <1>1, <1>3, <1>5
<1> QED BY <1>3, <1>6, <1>7, EndsSound DEF RegistryInv, TypeOK

LEMMA RetryIsSound ==
    ASSUME RegistryInv, NEW s \in Sessions, RetryVersion(s)
    PROVE  RegistryInv'
<1> DEFINE r == call[s].role
           n == NumberAfter(prompt[r])
           again == call[s].attempt + 1
           c == [call[s] EXCEPT !.attempt = again, !.number = n]
<1>1. /\ prompt' = prompt /\ snapshot' = snapshot /\ call[s].pc = "creating"
      /\ CallGoes(s, c) \/ CallEnds(s)
  BY DEF RetryVersion
<1>2. RowsGrow /\ snapshot' \in Seq([Roles -> Nat])
  BY <1>1, RowsUnchanged DEF RegistryInv, TypeOK
<1>3. CASE CallGoes(s, c)
  <2>1. r \in Roles /\ Len(prompt[r]) \in Nat /\ n = Len(prompt[r]) + 1
    BY CallColumns, Lengths, NumberFollows DEF RegistryInv, Sound
  <2>2. n \in Nat /\ n \in 1 .. Len(prompt[r]) + 1 /\ again \in Nat
    BY <2>1, CallColumns
  <2>3. c \in Calls /\ c.pc = "creating" /\ c.role = r /\ c.number = n
    <3> HIDE DEF n, again
    <3> QED BY <1>1, <2>2, CallColumns DEF Calls
  <2> HIDE DEF c
  <2>4. call'[s] = c
    BY <1>3 DEF CallGoes, RegistryInv, TypeOK
  <2> HIDE DEF n, r
  <2>5. Remembers(s)'
    BY <1>1, <2>2, <2>3, <2>4 DEF Remembers
  <2> QED BY <1>2, <1>3, <2>3, <2>5, StepIsSound
<1> QED BY <1>1, <1>2, <1>3, EndsSound

LEMMA ReadActiveIsSound ==
    ASSUME RegistryInv, NEW s \in Sessions, ReadActive(s)
    PROVE  RegistryInv'
<1>1. PICK r \in Roles : \E v \in Versions(r), current \in NoneOrActive(r) :
         CallGoes(s, [call[s] EXCEPT !.pc = "activating", !.role = r,
                                     !.target = v, !.current = current])
  BY DEF ReadActive
<1>2. PICK v \in Versions(r), current \in NoneOrActive(r) :
         CallGoes(s, [call[s] EXCEPT !.pc = "activating", !.role = r,
                                     !.target = v, !.current = current])
  BY <1>1
<1> DEFINE c == [call[s] EXCEPT !.pc = "activating", !.role = r,
                                !.target = v, !.current = current]
<1>3. /\ v \in DOMAIN prompt[r] /\ current \in {0} \cup DOMAIN prompt[r]
      /\ DOMAIN prompt[r] \subseteq Nat
  <2>1. DOMAIN prompt[r] \subseteq Nat
    BY Lengths DEF RegistryInv, Sound
  <2> QED BY <2>1 DEF Versions, NoneOrActive, Active
<1>4. /\ c \in Calls /\ c.pc = "activating" /\ c.role = r /\ c.target = v
      /\ c.current = current
  <2>1. v \in Nat /\ current \in Nat /\ call[s] \in Calls
    BY <1>3, CallColumns
  <2> QED BY <2>1 DEF Calls
<1>5. CallGoes(s, c) /\ prompt' = prompt /\ snapshot' = snapshot
  BY <1>2 DEF ReadActive
<1> HIDE DEF c
<1>6. call'[s] = c
  BY <1>5 DEF CallGoes, RegistryInv, TypeOK
<1>7. Remembers(s)'
  BY <1>3, <1>4, <1>5, <1>6 DEF Remembers
<1> QED BY <1>4, <1>5, <1>7, RowsUnchanged, StepIsSound DEF RegistryInv, TypeOK

\* An activation that is still as it was read leaves its target alone active;
\* the version it read as active, if any, is the one that gives way.
LEMMA ActivateIsSound ==
    ASSUME RegistryInv, NEW s \in Sessions, Activate(s)
    PROVE  /\ RegistryInv'
           /\ ActiveIn(prompt'[call[s].role]) = {call[s].target}
           /\ \A v \in ActiveIn(prompt[call[s].role]) : v = call[s].current
           /\ \A r \in Roles \ {call[s].role} : prompt'[r] = prompt[r]
<1> DEFINE c == call[s]
           r == c.role
           old == prompt[r]
           rows == Marked(Marked(old, c.current, FALSE), c.target, TRUE)
<1>1. /\ r \in Roles /\ Sound(old) /\ prompt \in [Roles -> Seq(PromptRows)]
      /\ \A v \in DOMAIN old : v # 0 /\ old[v].active \in BOOLEAN
  BY CallColumns, Lengths DEF RegistryInv, TypeOK, Sound
<1>2. /\ c.target \in DOMAIN old /\ c.current \in {0} \cup DOMAIN old
      /\ StillAsRead(c) /\ prompt' = [prompt EXCEPT ![r] = rows]
      /\ CallEnds(s) /\ snapshot' = snapshot
  BY DEF RegistryInv, Remembers, Activate
<1>3. /\ c.current = 0 => ActiveIn(old) = {}
      /\ c.current # 0 => c.current \in ActiveIn(old)
      /\ c.target # c.current
  BY <1>1, <1>2 DEF StillAsRead, NoneOrActive, Active, Versions, ActiveIn
<1>4. Sound(rows) /\ ActiveIn(rows) = {c.target} /\ Len(rows) = Len(old)
  <2> HIDE DEF c, r, old
  <2> QED BY <1>1, <1>2, <1>3, ActivatedIsSound
<1>5. Len(old) \in Nat
  BY <1>1, Lengths DEF Sound
<1>6. RowsGrow
  <2>1. r \in Roles /\ prompt' = [prompt EXCEPT ![r] = rows] /\ old = prompt[r]
    BY <1>1, <1>2
  <2> HIDE DEF rows, r, old, c
  <2>2. Len(old) <= Len(rows) /\ ActiveIn(rows) # {}
    BY <1>4, <1>5
  <2> QED BY <1>4, <2>1, <2>2, OneRoleGrows
<1> HIDE DEF rows
<1>7. RegistryInv'
  BY <1>2, <1>6, EndsSound DEF RegistryInv, TypeOK
<1>8. \A v \in ActiveIn(old) : v = c.current
  BY <1>1, <1>3 DEF Sound
<1>9. prompt'[r] = rows /\ \A q \in Roles \ {r} : prompt'[q] = prompt[q]
  BY <1>1, <1>2
<1> QED BY <1>4, <1>7, <1>8, <1>9

LEMMA EnsureIsSound ==
    ASSUME RegistryInv, NEW s \in Sessions, EnsureBuiltins(s)
    PROVE  /\ RegistryInv'
           /\ \A r \in Roles : ActiveIn(prompt[r]) # {} =>
                                   ActiveIn(prompt'[r]) = ActiveIn(prompt[r])
<1> DEFINE c == [call[s] EXCEPT !.pc = "starting"]
<1>1. /\ \A r \in Roles : prompt'[r] \in SeededRows(prompt[r]) /\ Sound(prompt[r])
      /\ prompt' = [r \in Roles |-> prompt'[r]]
      /\ CallGoes(s, c) /\ snapshot' = snapshot
  BY DEF EnsureBuiltins, RegistryInv
<1>2. \A r \in Roles :
        /\ Sound(prompt'[r]) /\ Len(prompt[r]) <= Len(prompt'[r])
        /\ ActiveIn(prompt'[r]) # {}
        /\ ActiveIn(prompt[r]) # {} => ActiveIn(prompt'[r]) = ActiveIn(prompt[r])
  BY <1>1, SeededIsSound
<1>3. \A r \in Roles : prompt'[r] \in Seq(PromptRows)
  BY <1>2 DEF Sound
<1>4. prompt' \in [Roles -> Seq(PromptRows)]
  BY <1>1, <1>3
<1>5. RowsGrow
  BY <1>2, <1>4 DEF RowsGrow
<1>6. c \in Calls /\ c.pc = "starting"
  BY CallColumns DEF Calls
<1> HIDE DEF c
<1>7. call'[s] = c
  BY <1>1 DEF CallGoes, RegistryInv, TypeOK
<1>8. Remembers(s)'
  BY <1>2, <1>6, <1>7 DEF Remembers
<1> QED BY <1>1, <1>2, <1>5, <1>6, <1>8, StepIsSound DEF RegistryInv, TypeOK

LEMMA SnapshotIsSound ==
    ASSUME RegistryInv, NEW s \in Sessions, TakeSnapshot(s)
    PROVE  RegistryInv'
<1>1. PICK copied \in [Roles -> 1 .. MaxVersions + 1] :
         snapshot' = Append(snapshot, copied)
  BY DEF TakeSnapshot
<1>2. copied \in [Roles -> Nat] /\ snapshot \in Seq([Roles -> Nat])
  BY <1>1 DEF RegistryInv, TypeOK
<1>3. snapshot' \in Seq([Roles -> Nat])
  BY <1>1, <1>2, AppendProperties
<1>4. prompt' = prompt /\ CallEnds(s)
  BY DEF TakeSnapshot
<1> QED BY <1>3, <1>4, RowsUnchanged, EndsSound

LEMMA RefuseIsSound ==
    ASSUME RegistryInv, NEW s \in Sessions, RefuseActivation(s) \/ RefuseStart(s)
    PROVE  RegistryInv'
<1>1. prompt' = prompt /\ snapshot' = snapshot /\ CallEnds(s)
  BY DEF RefuseActivation, RefuseStart
<1> QED BY <1>1, RowsUnchanged, EndsSound DEF RegistryInv, TypeOK

-----------------------------------------------------------------------------
(* Theorems *)

LEMMA RegistryInitial == Init => RegistryInv
<1> SUFFICES ASSUME Init PROVE RegistryInv
  OBVIOUS
<1>1. /\ \A r \in Roles : prompt[r] = <<>>
      /\ prompt \in [Roles -> Seq(PromptRows)] /\ snapshot \in Seq([Roles -> Nat])
  BY EmptySeq DEF Init
<1>2. \A s \in Sessions : call[s] \in Calls /\ call[s].pc = "idle"
  BY NoCallType DEF Init
<1>3. call \in [Sessions -> Calls]
  BY <1>2 DEF Init
<1>4. \A r \in Roles : Sound(prompt[r])
  BY <1>1, EmptySeq DEF Sound, ActiveIn
<1>5. \A s \in Sessions : Remembers(s)
  BY <1>2 DEF Remembers
<1> QED BY <1>1, <1>3, <1>4, <1>5 DEF RegistryInv, TypeOK

LEMMA RegistryKeeps == RegistryInv /\ [Next]_vars => RegistryInv'
<1> SUFFICES ASSUME RegistryInv, [Next]_vars PROVE RegistryInv'
  OBVIOUS
<1>1. CASE UNCHANGED vars
  BY <1>1 DEF vars, RegistryInv, TypeOK, Remembers
<1>2. ASSUME NEW s \in Sessions, Step(s)
      PROVE  RegistryInv'
  BY <1>2, ReadNumberIsSound, InsertIsSound, RetryIsSound, ReadActiveIsSound,
     ActivateIsSound, EnsureIsSound, SnapshotIsSound, RefuseIsSound DEF Step
<1> QED BY <1>1, <1>2 DEF Next

\* RegistryInv is an invariant: the rows of each role stay sound, and what a
\* session has read of them stays true (services/prompts.py).
THEOREM RegistryInductive == Spec => []RegistryInv
BY RegistryInitial, RegistryKeeps, PTL DEF Spec

\* For any number of processes and roles: one active version of a role at most,
\* versions numbered as they were made, and a start that has seeded the registry
\* finds an active prompt of every role, whatever others activate meanwhile
\* (services/prompts.py: create_version, activate, ensure_builtins).
THEOREM StartsFindPrompts == Spec => []StartFindsItsPrompts
<1>1. RegistryInv => StartFindsItsPrompts
  BY DEF RegistryInv, Sound, Remembers, StartFindsItsPrompts, Active, Versions, ActiveIn
<1> QED BY <1>1, RegistryInductive, PTL

\* An active version gives way only to one whose activation was asked for by
\* somebody who had seen it active (services/prompts.py: activate,
\* _ensure_builtins_once).
THEOREM ActiveIsKept == Spec => ActiveIsReplacedKnowingly
<1>1. ASSUME RegistryInv, [Next]_vars, NEW r \in Roles, NEW v \in Active(r),
             v \notin Active(r)'
      PROVE  \E s \in Sessions :
                /\ call[s].pc = "activating" /\ call[s].role = r
                /\ call[s].current = v
                /\ Active(r)' = {call[s].target}
  <2>1. \A q \in Roles : Active(q) = ActiveIn(prompt[q]) /\ Active(q)' = ActiveIn(prompt'[q])
    BY DEF Active, Versions, ActiveIn
  <2>2. prompt'[r] # prompt[r] /\ ActiveIn(prompt'[r]) # ActiveIn(prompt[r])
    BY <1>1, <2>1
  <2>3. PICK s \in Sessions : Step(s)
    BY <1>1, <2>2 DEF Next, vars
  <2>4. Activate(s)
    BY <1>1, <2>1, <2>2, <2>3, InsertIsSound, EnsureIsSound
       DEF Step, ReadNumber, RetryVersion, ReadActive, RefuseActivation,
           TakeSnapshot, RefuseStart
  <2>5. r = call[s].role
    BY <1>1, <2>2, <2>4, ActivateIsSound
  <2>6. v = call[s].current /\ Active(r)' = {call[s].target}
    BY <1>1, <2>1, <2>4, <2>5, ActivateIsSound
  <2> QED BY <2>4, <2>5, <2>6 DEF Activate
<1>2. RegistryInv /\ [Next]_vars =>
        [\A r \in Roles : \A v \in Active(r) : v \notin Active(r)' =>
            \E s \in Sessions :
                /\ call[s].pc = "activating" /\ call[s].role = r
                /\ call[s].current = v
                /\ Active(r)' = {call[s].target}]_vars
  BY <1>1
<1> QED BY <1>2, RegistryInductive, PTL DEF Spec, ActiveIsReplacedKnowingly
=============================================================================
