----------------------------- MODULE NodeProofs -----------------------------
(* Proofs about NodeManager for any sets of connectors, generations, streams   *)
(* and callers of Drain, and for any capacity and width of the counters.       *)
EXTENDS NodeManager, FiniteSetTheorems, TLAPS

(* The counts as functions of the values of the maps.                          *)
ConnectorType ==
    [gen : Generations \cup {Absent}, streams : 0..MaxUint, retired : [Generations -> 0..MaxUint]]
StreamType == [st : {"free", "open", "closed"}, id : Ids \cup {Absent}, gen : Generations \cup {Absent}]

Count(r, g) == r.retired[g] + (IF r.gen = g THEN r.streams ELSE 0)
CountedOf(cn, i, g) == Count(cn[i], g)
UnitsOf(cn) == {u \in (Ids \X Generations) \X (1..MaxUint) : u[2] <= CountedOf(cn, u[1][1], u[1][2])}
OpenOf(sm) == {s \in Streams : sm[s].st = "open"}
HeldOf(sm, i, g) == {s \in OpenOf(sm) : sm[s].id = i /\ sm[s].gen = g}

Conserved(cn, sm) ==
    /\ \A i \in Ids, g \in Generations : CountedOf(cn, i, g) = Cardinality(HeldOf(sm, i, g))
    /\ Cardinality(UnitsOf(cn)) = Cardinality(OpenOf(sm))

(* A connector map in order: what TypeOK and ConnectorInv say of it.           *)
Shape(cn) ==
    /\ cn \in [Ids -> ConnectorType]
    /\ \A i \in Ids : cn[i].gen = Absent => cn[i] = NoConnector
    /\ \A i \in Ids, g \in Generations : cn[i].retired[g] > 0 => g < cn[i].gen

-----------------------------------------------------------------------------
(* Counting                                                                    *)

LEMMA CountedIsNatural ==
    ASSUME NEW cn, Shape(cn), NEW i \in Ids, NEW g \in Generations
    PROVE  CountedOf(cn, i, g) \in 0..MaxUint
<1>1. cn[i] \in ConnectorType
  BY Zenon DEF Shape
<1>2. cn[i].gen = g => cn[i].retired[g] = 0
  <2>1. cn[i].retired[g] \in Nat /\ g \in Nat
    BY <1>1, NodeAssumption DEF ConnectorType
  <2> QED  BY <2>1 DEF Shape
<1>3. cn[i].retired[g] \in 0..MaxUint /\ cn[i].streams \in 0..MaxUint
  BY <1>1, Zenon DEF ConnectorType
<1> QED  BY <1>2, <1>3, NodeAssumption DEF CountedOf, Count

LEMMA UnitsAreFinite ==
    ASSUME NEW cn
    PROVE  IsFiniteSet(UnitsOf(cn)) /\ Cardinality(UnitsOf(cn)) \in Nat
<1>1. IsFiniteSet(1..MaxUint)
  BY NodeAssumption, FS_Interval
<1>2. IsFiniteSet((Ids \X Generations) \X (1..MaxUint))
  BY <1>1, NodeAssumption, FS_Product, Zenon
<1> QED  BY <1>2, FS_Subset, FS_CardinalityType, Zenon DEF UnitsOf

LEMMA OpenIsFinite ==
    ASSUME NEW sm
    PROVE  /\ IsFiniteSet(OpenOf(sm)) /\ Cardinality(OpenOf(sm)) \in Nat
           /\ \A i, g : IsFiniteSet(HeldOf(sm, i, g)) /\ Cardinality(HeldOf(sm, i, g)) \in Nat
<1>1. IsFiniteSet(OpenOf(sm))
  BY NodeAssumption, FS_Subset, Zenon DEF OpenOf
<1>2. \A i, g : IsFiniteSet(HeldOf(sm, i, g))
  BY <1>1, FS_Subset, Zenon DEF HeldOf
<1> QED  BY <1>1, <1>2, FS_CardinalityType, Zenon

(* One more stream is counted, for one generation of one connector.            *)
LEMMA UnitAdded ==
    ASSUME NEW a, NEW b, Shape(a), Shape(b), NEW i \in Ids, NEW g \in Generations,
           CountedOf(b, i, g) = CountedOf(a, i, g) + 1,
           \A j \in Ids, h \in Generations : j # i \/ h # g => CountedOf(b, j, h) = CountedOf(a, j, h)
    PROVE  Cardinality(UnitsOf(b)) = Cardinality(UnitsOf(a)) + 1
<1>1. PICK n \in Nat : n = CountedOf(a, i, g) /\ CountedOf(b, i, g) = n + 1 /\ n + 1 \in 1..MaxUint
  <2>1. CountedOf(a, i, g) \in 0..MaxUint /\ CountedOf(b, i, g) \in 0..MaxUint
    BY CountedIsNatural, Zenon
  <2> QED  BY <2>1, NodeAssumption
<1> DEFINE x == <<<<i, g>>, n + 1>>
<1>2. x \notin UnitsOf(a)
  BY <1>1 DEF UnitsOf
<1>3. UnitsOf(b) = UnitsOf(a) \cup {x}
  <2>1. ASSUME NEW j \in Ids, NEW h \in Generations, NEW m \in 1..MaxUint
        PROVE  m <= CountedOf(b, j, h) <=> m <= CountedOf(a, j, h) \/ <<<<j, h>>, m>> = x
    <3>1. CASE j # i \/ h # g
      BY <3>1, Zenon
    <3>2. CASE j = i /\ h = g
      BY <1>1, <3>2
    <3> QED  BY <3>1, <3>2, Zenon
  <2>2. x \in (Ids \X Generations) \X (1..MaxUint)
    BY <1>1, Zenon
  <2> QED  BY <2>1, <2>2 DEF UnitsOf
<1> QED  BY <1>2, <1>3, UnitsAreFinite, FS_AddElement, ZenonT(30)

LEMMA UnitsUnchanged ==
    ASSUME NEW a, NEW b, \A j \in Ids, h \in Generations : CountedOf(b, j, h) = CountedOf(a, j, h)
    PROVE  UnitsOf(b) = UnitsOf(a)
  BY Zenon DEF UnitsOf

(* One more stream is open, and it belongs to one generation of one connector. *)
LEMMA StreamAdded ==
    ASSUME NEW a, NEW b, NEW s \in Streams, NEW i, NEW g,
           a[s].st # "open", b[s].st = "open", b[s].id = i, b[s].gen = g,
           \A r \in Streams \ {s} : b[r] = a[r]
    PROVE  /\ Cardinality(OpenOf(b)) = Cardinality(OpenOf(a)) + 1
           /\ Cardinality(HeldOf(b, i, g)) = Cardinality(HeldOf(a, i, g)) + 1
           /\ \A j, h : j # i \/ h # g => HeldOf(b, j, h) = HeldOf(a, j, h)
<1>1. OpenOf(b) = OpenOf(a) \cup {s} /\ s \notin OpenOf(a)
  BY DEF OpenOf
<1>2. HeldOf(b, i, g) = HeldOf(a, i, g) \cup {s} /\ s \notin HeldOf(a, i, g)
  BY <1>1 DEF HeldOf, OpenOf
<1>3. \A j, h : j # i \/ h # g => HeldOf(b, j, h) = HeldOf(a, j, h)
  <2>1. SUFFICES ASSUME NEW j, NEW h, j # i \/ h # g
                 PROVE  HeldOf(b, j, h) = HeldOf(a, j, h)
    BY Zenon
  <2>2. ASSUME NEW r \in Streams
        PROVE  r \in HeldOf(b, j, h) <=> r \in HeldOf(a, j, h)
    <3>1. CASE r = s
      BY <2>1, <3>1, Zenon DEF HeldOf, OpenOf
    <3>2. CASE r # s
      BY <3>2, Zenon DEF HeldOf, OpenOf
    <3> QED  BY <3>1, <3>2, Zenon
  <2> QED  BY <2>2, Zenon DEF HeldOf, OpenOf
<1>4. Cardinality(OpenOf(b)) = Cardinality(OpenOf(a)) + 1
  BY <1>1, OpenIsFinite, FS_AddElement, Zenon
<1>5. Cardinality(HeldOf(b, i, g)) = Cardinality(HeldOf(a, i, g)) + 1
  <2>1. IsFiniteSet(HeldOf(a, i, g))
    BY OpenIsFinite, Zenon
  <2>2. Cardinality(HeldOf(a, i, g) \cup {s}) = Cardinality(HeldOf(a, i, g)) + 1
    BY <1>2, <2>1, FS_AddElement, Zenon
  <2> QED  BY <1>2, <2>2, Zenon
<1> QED  BY <1>3, <1>4, <1>5, Zenon

(* A stream is opened, or read backwards, closed: both counts move together.   *)
LEMMA BothMove ==
    ASSUME NEW a, NEW b, Shape(a), Shape(b), NEW x, NEW y,
           NEW s \in Streams, NEW i \in Ids, NEW g \in Generations,
           CountedOf(b, i, g) = CountedOf(a, i, g) + 1,
           \A j \in Ids, h \in Generations : j # i \/ h # g => CountedOf(b, j, h) = CountedOf(a, j, h),
           x[s].st # "open", y[s].st = "open", y[s].id = i, y[s].gen = g,
           \A r \in Streams \ {s} : y[r] = x[r]
    PROVE  Conserved(a, x) <=> Conserved(b, y)
<1>1. Cardinality(UnitsOf(b)) = Cardinality(UnitsOf(a)) + 1
  BY UnitAdded, Zenon
<1>2. /\ Cardinality(OpenOf(y)) = Cardinality(OpenOf(x)) + 1
      /\ Cardinality(HeldOf(y, i, g)) = Cardinality(HeldOf(x, i, g)) + 1
      /\ \A j, h : j # i \/ h # g => HeldOf(y, j, h) = HeldOf(x, j, h)
  BY StreamAdded
<1>3. Cardinality(UnitsOf(a)) \in Nat /\ Cardinality(OpenOf(x)) \in Nat
      /\ Cardinality(HeldOf(x, i, g)) \in Nat /\ CountedOf(a, i, g) \in Nat
  <2>1. CountedOf(a, i, g) \in 0..MaxUint
    BY CountedIsNatural, Zenon
  <2> QED  BY <2>1, UnitsAreFinite, OpenIsFinite
<1>4. Cardinality(UnitsOf(a)) = Cardinality(OpenOf(x)) <=> Cardinality(UnitsOf(b)) = Cardinality(OpenOf(y))
  BY <1>1, <1>2, <1>3
<1>5. CountedOf(a, i, g) = Cardinality(HeldOf(x, i, g)) <=> CountedOf(b, i, g) = Cardinality(HeldOf(y, i, g))
  BY <1>2, <1>3
<1>6. ASSUME NEW j \in Ids, NEW h \in Generations
      PROVE  CountedOf(a, j, h) = Cardinality(HeldOf(x, j, h)) <=> CountedOf(b, j, h) = Cardinality(HeldOf(y, j, h))
  <2>1. CASE j = i /\ h = g
    BY <1>5, <2>1, Zenon
  <2>2. CASE j # i \/ h # g
    BY <1>2, <2>2, Zenon
  <2> QED  BY <2>1, <2>2, Zenon
<1> QED  BY <1>4, <1>6, Zenon DEF Conserved

-----------------------------------------------------------------------------
(* The operations on the connectors                                            *)

LEMMA NoConnectorFacts ==
    /\ NoConnector \in ConnectorType
    /\ NoConnector.gen = Absent /\ NoConnector.streams = 0
    /\ \A g \in Generations : NoConnector.retired[g] = 0
<1>1. 0 \in 0..MaxUint
  BY NodeAssumption
<1> QED  BY <1>1, Zenon DEF NoConnector, ConnectorType

(* One connector is replaced by another record.                                *)
Put(cn, i, r) == [cn EXCEPT ![i] = r]
PutCounts(cn, i, r) ==
    /\ Shape(Put(cn, i, r))
    /\ \A g \in Generations : CountedOf(Put(cn, i, r), i, g) = Count(r, g)
    /\ \A j \in Ids \ {i}, g \in Generations : CountedOf(Put(cn, i, r), j, g) = CountedOf(cn, j, g)

LEMMA Update ==
    ASSUME NEW cn, Shape(cn), NEW i \in Ids, NEW r \in ConnectorType,
           r.gen = Absent => r = NoConnector,
           \A g \in Generations : r.retired[g] > 0 => g < r.gen
    PROVE  PutCounts(cn, i, r)
<1> DEFINE new == Put(cn, i, r)
<1>1. new \in [Ids -> ConnectorType] /\ new[i] = r /\ \A j \in Ids \ {i} : new[j] = cn[j]
  BY Zenon DEF Shape, Put
<1> HIDE DEF new
<1>2. \A j \in Ids : new[j].gen = Absent => new[j] = NoConnector
  BY <1>1, Zenon DEF Shape
<1>3. \A j \in Ids, g \in Generations : new[j].retired[g] > 0 => g < new[j].gen
  BY <1>1, Zenon DEF Shape
<1>4. Shape(new)
  BY <1>1, <1>2, <1>3, Zenon DEF Shape
<1>5. \A g \in Generations : CountedOf(new, i, g) = Count(r, g)
  BY <1>1, Zenon DEF CountedOf
<1>6. \A j \in Ids \ {i}, g \in Generations : CountedOf(new, j, g) = CountedOf(cn, j, g)
  BY <1>1, Zenon DEF CountedOf
<1> QED  BY <1>4, <1>5, <1>6, Zenon DEF PutCounts, new

LEMMA RecordFacts ==
    ASSUME NEW cn, Shape(cn), NEW i \in Ids
    PROVE  /\ cn[i] \in ConnectorType
           /\ cn[i].gen \in Generations \cup {Absent} /\ cn[i].gen \in Nat
           /\ cn[i].streams \in 0..MaxUint /\ cn[i].streams \in Nat
           /\ cn[i].retired \in [Generations -> 0..MaxUint]
           /\ \A g \in Generations : cn[i].retired[g] \in Nat /\ g \in Nat /\ g # Absent
           /\ cn[i].gen \in Generations => cn[i].retired[cn[i].gen] = 0
<1>1. cn[i] \in ConnectorType
  BY Zenon DEF Shape
<1>2. cn[i].gen \in Generations \cup {Absent} /\ cn[i].gen \in Nat
  <2>1. cn[i].gen \in Generations \cup {Absent}
    BY <1>1, Zenon DEF ConnectorType
  <2>2. \A g \in Generations : g \in Nat
    BY NodeAssumption, Zenon
  <2> QED  BY <2>1, <2>2 DEF Absent
<1>3. cn[i].streams \in 0..MaxUint /\ cn[i].streams \in Nat /\ cn[i].retired \in [Generations -> 0..MaxUint]
  BY <1>1, NodeAssumption DEF ConnectorType
<1>4. \A g \in Generations : cn[i].retired[g] \in Nat /\ g \in Nat /\ g # Absent
  BY <1>3, NodeAssumption
<1>5. cn[i].gen \in Generations => cn[i].retired[cn[i].gen] = 0
  BY <1>2, <1>4 DEF Shape
<1> QED  BY <1>1, <1>2, <1>3, <1>4, <1>5, Zenon

Admitted(g) == [NoConnector EXCEPT !.gen = g]
Replaced(r, g) == [gen |-> g, streams |-> 0, retired |-> [r.retired EXCEPT ![r.gen] = @ + r.streams]]

(* AdmitConnector *)
LEMMA AdmitCounts ==
    ASSUME NEW cn, Shape(cn), NEW i \in Ids, NEW g \in Generations, cn[i].gen = Absent, NEW new,
           new = Put(cn, i, Admitted(g))
    PROVE  /\ Shape(new)
           /\ \A j \in Ids, h \in Generations : CountedOf(new, j, h) = CountedOf(cn, j, h)
<1>1. PICK r : r = Admitted(g)
  BY Zenon
<1>2. /\ r \in ConnectorType /\ r.gen = g /\ r.streams = 0 /\ \A h \in Generations : r.retired[h] = 0
      /\ g # Absent
  BY <1>1, NoConnectorFacts, NodeAssumption, Zenon DEF ConnectorType, Admitted
<1>3. new = Put(cn, i, r) /\ PutCounts(cn, i, r)
  <2>1. \A h \in Generations : r.retired[h] > 0 => h < r.gen
    BY <1>2
  <2>2. new = Put(cn, i, r)
    BY <1>1, Zenon
  <2> QED  BY <1>2, <2>1, <2>2, Update, Zenon
<1>4. cn[i] = NoConnector
  BY Zenon DEF Shape
<1>5. \A h \in Generations : Count(r, h) = 0 /\ CountedOf(cn, i, h) = 0
  BY <1>2, <1>4, NoConnectorFacts DEF CountedOf, Count
<1> QED  BY <1>3, <1>5, Zenon DEF PutCounts

(* ReplaceConnector: the current streams are retired with their generation.    *)
LEMMA ReplaceCounts ==
    ASSUME NEW cn, Shape(cn), NEW i \in Ids, NEW g \in Generations, cn[i].gen # Absent, g > cn[i].gen,
           NEW new,
           new = Put(cn, i, Replaced(cn[i], g))
    PROVE  /\ Shape(new)
           /\ \A j \in Ids, h \in Generations : CountedOf(new, j, h) = CountedOf(cn, j, h)
<1>1. PICK old \in Generations : old = cn[i].gen /\ g > old /\ cn[i].retired[old] = 0 /\ old \in Nat /\ g \in Nat
  BY RecordFacts, Zenon
<1>2. PICK r : r = Replaced(cn[i], g)
               /\ r = [gen |-> g, streams |-> 0, retired |-> [cn[i].retired EXCEPT ![old] = @ + cn[i].streams]]
  BY <1>1, Zenon DEF Replaced
<1>3. new = Put(cn, i, r)
  BY <1>2, Zenon
<1>4. cn[i].retired \in [Generations -> 0..MaxUint] /\ cn[i].streams \in 0..MaxUint /\ cn[i].streams \in Nat
  BY RecordFacts, Zenon
<1>5. PICK t \in [Generations -> 0..MaxUint] :
        /\ t = [cn[i].retired EXCEPT ![old] = @ + cn[i].streams] /\ t[old] = cn[i].streams
        /\ \A h \in Generations \ {old} : t[h] = cn[i].retired[h]
  <2>1. cn[i].retired[old] + cn[i].streams = cn[i].streams
    BY <1>1, <1>4
  <2>2. PICK t : t = [cn[i].retired EXCEPT ![old] = @ + cn[i].streams]
    BY Zenon
  <2>3. t = [cn[i].retired EXCEPT ![old] = cn[i].streams]
    BY <2>1, <2>2, Zenon
  <2>4. t \in [Generations -> 0..MaxUint] /\ t[old] = cn[i].streams
        /\ \A h \in Generations \ {old} : t[h] = cn[i].retired[h]
    BY <1>4, <2>3, Zenon
  <2> QED  BY <2>2, <2>4, Zenon
<1>6. r.gen = g /\ r.streams = 0 /\ r.retired = t /\ r \in ConnectorType
  BY <1>2, <1>5, NodeAssumption DEF ConnectorType
<1>7. \A h \in Generations : t[h] > 0 => h < g
  <2>1. SUFFICES ASSUME NEW h \in Generations, t[h] > 0
                 PROVE  h < g
    BY Zenon
  <2>2. CASE h = old
    BY <1>1, <2>2, Zenon
  <2>3. CASE h # old
    <3>1. h < cn[i].gen /\ h \in Nat
      BY <1>5, <2>1, <2>3, RecordFacts, Zenon DEF Shape
    <3> QED  BY <1>1, <3>1
  <2> QED  BY <2>2, <2>3, Zenon
<1>8. new = Put(cn, i, r) /\ PutCounts(cn, i, r)
  <2>1. r.gen # Absent /\ \A h \in Generations : r.retired[h] > 0 => h < r.gen
    BY <1>6, <1>7, RecordFacts, Zenon
  <2> QED  BY <1>3, <1>6, <2>1, Update, Zenon
<1>9. \A h \in Generations : Count(r, h) = CountedOf(cn, i, h)
  <2>1. SUFFICES ASSUME NEW h \in Generations
                 PROVE  Count(r, h) = CountedOf(cn, i, h)
    BY Zenon
  <2>2. t[h] \in Nat /\ cn[i].retired[h] \in Nat
    BY <1>5, RecordFacts
  <2>3. CASE h = old
    BY <1>1, <1>4, <1>5, <1>6, <2>2, <2>3 DEF CountedOf, Count
  <2>4. CASE h # old
    BY <1>1, <1>4, <1>5, <1>6, <2>2, <2>4, Zenon DEF CountedOf, Count
  <2> QED  BY <2>3, <2>4, Zenon
<1> QED  BY <1>8, <1>9, Zenon DEF PutCounts

SetStreams(cn, i, n) == [cn EXCEPT ![i].streams = n]
TakeRetired(cn, i, g) == [cn EXCEPT ![i].retired[g] = @ - 1]

(* RemoveConnector: one that counts nothing.                                   *)
LEMMA RemoveCounts ==
    ASSUME NEW cn, Shape(cn), NEW i \in Ids, cn[i].streams = 0,
           \A g \in Generations : cn[i].retired[g] = 0, NEW new,
           new = Put(cn, i, NoConnector)
    PROVE  /\ Shape(new)
           /\ \A j \in Ids, h \in Generations : CountedOf(new, j, h) = CountedOf(cn, j, h)
<1>1. new = Put(cn, i, NoConnector) /\ PutCounts(cn, i, NoConnector)
  <2>1. \A h \in Generations : NoConnector.retired[h] > 0 => h < NoConnector.gen
    BY NoConnectorFacts
  <2> QED  BY <2>1, NoConnectorFacts, Update, Zenon
<1>2. \A h \in Generations : Count(NoConnector, h) = 0 /\ CountedOf(cn, i, h) = 0
  BY NoConnectorFacts DEF CountedOf, Count
<1> QED  BY <1>1, <1>2, Zenon DEF PutCounts

(* OpenStream and the current case of CloseStream: the count of the current    *)
(* generation.                                                                 *)
LEMMA CurrentCounts ==
    ASSUME NEW cn, Shape(cn), NEW i \in Ids, cn[i].gen # Absent, NEW n \in 0..MaxUint, NEW new,
           new = SetStreams(cn, i, n)
    PROVE  /\ Shape(new) /\ cn[i].gen \in Generations
           /\ CountedOf(cn, i, cn[i].gen) = cn[i].streams /\ CountedOf(new, i, cn[i].gen) = n
           /\ \A j \in Ids, h \in Generations :
                  j # i \/ h # cn[i].gen => CountedOf(new, j, h) = CountedOf(cn, j, h)
<1>1. cn[i] \in ConnectorType /\ cn[i].gen \in Generations /\ cn[i].streams \in Nat
      /\ cn[i].retired[cn[i].gen] = 0 /\ n \in Nat
  BY RecordFacts, NodeAssumption
<1>2. PICK r : r = [cn[i] EXCEPT !.streams = n]
  BY Zenon
<1>3. new = Put(cn, i, r)
  BY <1>2, Zenon DEF Put, SetStreams
<1>4. r \in ConnectorType /\ r.gen = cn[i].gen /\ r.streams = n /\ r.retired = cn[i].retired
  BY <1>1, <1>2, Zenon DEF ConnectorType
<1>5. new = Put(cn, i, r) /\ PutCounts(cn, i, r)
  <2>1. \A g \in Generations : r.retired[g] > 0 => g < r.gen
    BY <1>4, Zenon DEF Shape
  <2>2. r.gen # Absent
    BY <1>4, Zenon
  <2> QED  BY <1>3, <1>4, <2>1, <2>2, Update, Zenon
<1>6. CountedOf(cn, i, cn[i].gen) = cn[i].streams /\ Count(r, cn[i].gen) = n
  BY <1>1, <1>4 DEF CountedOf, Count
<1>7. \A h \in Generations : h # cn[i].gen => Count(r, h) = CountedOf(cn, i, h)
  BY <1>4, Zenon DEF CountedOf, Count
<1> QED  BY <1>1, <1>5, <1>6, <1>7, Zenon DEF PutCounts

(* The retired case of CloseStream.                                            *)
LEMMA RetiredCounts ==
    ASSUME NEW cn, Shape(cn), NEW i \in Ids, NEW g \in Generations, cn[i].retired[g] > 0, NEW new,
           new = TakeRetired(cn, i, g)
    PROVE  /\ Shape(new)
           /\ CountedOf(cn, i, g) = CountedOf(new, i, g) + 1
           /\ \A j \in Ids, h \in Generations : j # i \/ h # g => CountedOf(new, j, h) = CountedOf(cn, j, h)
<1>1. cn[i] \in ConnectorType /\ cn[i].retired \in [Generations -> 0..MaxUint]
      /\ g \in Nat /\ cn[i].gen \in Nat /\ g < cn[i].gen
  BY RecordFacts, Zenon DEF Shape
<1>2. PICK n \in Nat : n + 1 = cn[i].retired[g] /\ n \in 0..MaxUint /\ n = cn[i].retired[g] - 1
  BY <1>1, NodeAssumption
<1>3. PICK r : r = [cn[i] EXCEPT !.retired[g] = @ - 1]
  BY Zenon
<1>4. new = Put(cn, i, r)
  BY <1>3, Zenon DEF Put, TakeRetired
<1>5. PICK t : t = [cn[i].retired EXCEPT ![g] = n]
  BY Zenon
<1>6. t \in [Generations -> 0..MaxUint] /\ t[g] = n /\ \A h \in Generations \ {g} : t[h] = cn[i].retired[h]
  BY <1>1, <1>2, <1>5, Zenon
<1>7. r.gen = cn[i].gen /\ r.streams = cn[i].streams /\ r.retired = t /\ r \in ConnectorType
  BY <1>1, <1>2, <1>3, <1>5, <1>6, Zenon DEF ConnectorType
<1>8. new = Put(cn, i, r) /\ PutCounts(cn, i, r)
  <2>1. \A h \in Generations : r.retired[h] > 0 => h < r.gen
    BY <1>1, <1>6, <1>7, Zenon DEF Shape
  <2>2. r.gen # Absent
    BY <1>1, <1>7 DEF Absent
  <2> QED  BY <1>4, <1>7, <2>1, <2>2, Update, Zenon
<1>9. CountedOf(cn, i, g) = n + 1 /\ Count(r, g) = n
  BY <1>1, <1>2, <1>6, <1>7 DEF CountedOf, Count
<1>10. \A h \in Generations : h # g => Count(r, h) = CountedOf(cn, i, h)
  BY <1>6, <1>7, Zenon DEF CountedOf, Count
<1> QED  BY <1>8, <1>9, <1>10, Zenon DEF PutCounts

-----------------------------------------------------------------------------
(* Ownership: ConnectorInv in terms of the values of the maps                  *)

Ownership ==
    /\ Shape(conn)
    /\ \A s \in OpenOf(stream) : stream[s].id \in Ids /\ stream[s].gen \in Generations
    /\ \A d \in Drainers : drain[d].pc # "idle" => Fenced
    /\ Forced => \A i \in Ids : conn[i] = NoConnector
    /\ ~Forced => Conserved(conn, stream)
    /\ (\E d \in Drainers : drain[d].pc = "drained") => Forced \/ OpenOf(stream) = {}

LEMMA SameCounts ==
    /\ Units = UnitsOf(conn) /\ Open = OpenOf(stream)
    /\ \A i, g : Counted(i, g) = CountedOf(conn, i, g) /\ Held(i, g) = HeldOf(stream, i, g)
<1>1. \A i, g : Counted(i, g) = CountedOf(conn, i, g)
  BY Zenon DEF Counted, CountedOf, Count
<1>2. Open = OpenOf(stream)
  BY Zenon DEF Open, OpenOf
<1>3. \A i, g : Held(i, g) = HeldOf(stream, i, g)
  BY <1>2, Zenon DEF Held, HeldOf
<1> QED  BY <1>1, <1>2, <1>3, Zenon DEF Units, UnitsOf

LEMMA SameCountsNext ==
    /\ Units' = UnitsOf(conn') /\ Open' = OpenOf(stream')
    /\ \A i, g : Counted(i, g)' = CountedOf(conn', i, g) /\ Held(i, g)' = HeldOf(stream', i, g)
<1>1. \A i, g : Counted(i, g)' = CountedOf(conn', i, g)
  BY Zenon DEF Counted, CountedOf, Count
<1>2. Open' = OpenOf(stream')
  BY Zenon DEF Open, OpenOf
<1>3. \A i, g : Held(i, g)' = HeldOf(stream', i, g)
  BY <1>2, Zenon DEF Held, HeldOf
<1> QED  BY <1>1, <1>2, <1>3, Zenon DEF Units, UnitsOf

LEMMA InvOwns == TypeOK /\ ConnectorInv => Ownership
<1>1. SUFFICES ASSUME TypeOK, ConnectorInv
               PROVE  Ownership
  BY Zenon
<1>2. Shape(conn)
  BY <1>1, Zenon DEF TypeOK, ConnectorInv, Shape, ConnectorType
<1>3. ~Forced => Conserved(conn, stream)
  BY <1>1, SameCounts, Zenon DEF ConnectorInv, StreamConservation, Conserved
<1>4. (\E d \in Drainers : drain[d].pc = "drained") => Forced \/ OpenOf(stream) = {}
  BY <1>1, Zenon DEF ConnectorInv, DrainedIsEmpty, OpenOf
<1> QED  BY <1>1, <1>2, <1>3, <1>4, SameCounts, Zenon DEF Ownership, ConnectorInv

LEMMA OwnsInv == Ownership => ConnectorInv
<1>1. SUFFICES ASSUME Ownership
               PROVE  ConnectorInv
  BY Zenon
<1>2. StreamConservation
  BY <1>1, SameCounts, Zenon DEF Ownership, StreamConservation, Conserved
<1>3. DrainedIsEmpty
  BY <1>1, Zenon DEF Ownership, DrainedIsEmpty, OpenOf
<1> QED  BY <1>1, <1>2, <1>3, SameCounts, Zenon DEF Ownership, ConnectorInv, Shape

LEMMA OwnsInvNext == Ownership' => ConnectorInv'
<1>1. SUFFICES ASSUME Ownership'
               PROVE  ConnectorInv'
  BY Zenon
<1>2. StreamConservation'
  BY <1>1, SameCountsNext, Zenon DEF Ownership, StreamConservation, Conserved
<1>3. DrainedIsEmpty'
  BY <1>1, Zenon DEF Ownership, DrainedIsEmpty, OpenOf
<1> QED  BY <1>1, <1>2, <1>3, SameCountsNext, Zenon DEF Ownership, ConnectorInv, Shape

(* What only the counts say of two pairs of maps.                              *)
LEMMA SameConserved ==
    ASSUME NEW a, NEW b, NEW sm, \A j \in Ids, h \in Generations : CountedOf(b, j, h) = CountedOf(a, j, h)
    PROVE  Conserved(a, sm) => Conserved(b, sm)
<1>1. UnitsOf(b) = UnitsOf(a)
  BY UnitsUnchanged, Zenon
<1> QED  BY <1>1, Zenon DEF Conserved

(* Nothing counted, nothing held.                                              *)
LEMMA NothingHeld ==
    ASSUME NEW cn, NEW sm, Conserved(cn, sm), saturatingUint32(Cardinality(UnitsOf(cn))) = 0
    PROVE  OpenOf(sm) = {}
<1>1. Cardinality(OpenOf(sm)) = 0
  BY UnitsAreFinite, NodeAssumption, Zenon DEF Conserved, saturatingUint32
<1> QED  BY <1>1, OpenIsFinite, FS_EmptySet, Zenon

(* Signal moves no caller of Drain.                                            *)
DrainType == [pc : {"idle", "look", "wait", "drained", "forced"}, woken : BOOLEAN]

LEMMA SignalFacts ==
    ASSUME drain \in [Drainers -> DrainType]
    PROVE  Signal \in [Drainers -> DrainType] /\ \A d \in Drainers : Signal[d].pc = drain[d].pc
<1>1. ASSUME NEW d \in Drainers
      PROVE  Signal[d] \in DrainType /\ Signal[d].pc = drain[d].pc
  <2>1. drain[d] \in DrainType
    BY Zenon
  <2>2. Signal[d] = [drain[d] EXCEPT !.woken = @ \/ drain[d].pc = "wait"]
    BY Zenon DEF Signal
  <2> QED  BY <2>1, <2>2, Zenon DEF DrainType
<1> QED  BY <1>1, Zenon DEF Signal

(* While the node is ready no Drain has begun.                                 *)
LEMMA ReadyIsUndrained ==
    ASSUME Ownership, ~Fenced
    PROVE  /\ \A d \in Drainers : drain[d].pc = "idle"
           /\ ~Forced /\ Conserved(conn, stream)
  BY Zenon DEF Ownership, Forced

-----------------------------------------------------------------------------
(* Ownership, action by action                                                 *)

(* The phase alone moves, and not out of a drain.                              *)
LEMMA PhaseOwns ==
    ASSUME Ownership, UNCHANGED ownVars, Fenced => Fenced'
    PROVE  Ownership'
<1>1. conn' = conn /\ stream' = stream /\ drain' = drain
  BY Zenon DEF ownVars
<1>2. Forced' <=> Forced
  BY <1>1, Zenon DEF Forced
<1> QED  BY <1>1, <1>2, Zenon DEF Ownership

(* A connector is admitted, replaced or removed.                               *)
LEMMA ConnectorOwns ==
    ASSUME Ownership, ~Fenced, UNCHANGED <<phase, stream, drain>>, Shape(conn'),
           \A j \in Ids, h \in Generations : CountedOf(conn', j, h) = CountedOf(conn, j, h)
    PROVE  Ownership'
<1>1. (\A d \in Drainers : drain[d].pc = "idle") /\ ~Forced /\ Conserved(conn, stream)
  BY ReadyIsUndrained, Zenon
<1>2. ~Forced' /\ \A d \in Drainers : drain'[d].pc = "idle"
  BY <1>1, Zenon DEF Forced
<1>3. Conserved(conn', stream')
  BY <1>1, SameConserved, Zenon
<1> QED  BY <1>2, <1>3, Zenon DEF Ownership

LEMMA RemoveOwns ==
    ASSUME Ownership, drain \in [Drainers -> DrainType], NEW i \in Ids, RemoveConnector(i)
    PROVE  Ownership'
<1>1. Shape(conn) /\ conn' = Put(conn, i, NoConnector) /\ stream' = stream /\ phase' = phase
  BY Zenon DEF RemoveConnector, Ownership, Put
<1>2. /\ Shape(conn')
      /\ \A j \in Ids, h \in Generations : CountedOf(conn', j, h) = CountedOf(conn, j, h)
  <2>1. conn[i].streams = 0 /\ \A g \in Generations : conn[i].retired[g] = 0
    BY Zenon DEF RemoveConnector
  <2> QED  BY <1>1, <2>1, RemoveCounts
<1>3. \A d \in Drainers : drain'[d].pc = drain[d].pc
  BY SignalFacts, Zenon DEF RemoveConnector
<1>4. (Forced' <=> Forced) /\ (Fenced' <=> Fenced)
  BY <1>1, <1>3, Zenon DEF Forced, Fenced
<1>5. Forced => \A j \in Ids : conn'[j] = NoConnector
  BY <1>1, Zenon DEF Ownership, Shape, Put
<1>6. ~Forced => Conserved(conn', stream')
  <2>1. Conserved(conn, stream) => Conserved(conn', stream)
    BY <1>2, SameConserved, Zenon
  <2> QED  BY <1>1, <2>1, Zenon DEF Ownership
<1> QED  BY <1>1, <1>2, <1>3, <1>4, <1>5, <1>6, Zenon DEF Ownership

LEMMA OpenOwns ==
    ASSUME Ownership, stream \in [Streams -> StreamType], NEW s \in Streams, NEW i \in Ids, OpenStream(s, i)
    PROVE  Ownership'
<1>1. (\A d \in Drainers : drain[d].pc = "idle") /\ ~Forced /\ Conserved(conn, stream)
  BY ReadyIsUndrained, Zenon DEF OpenStream, Fenced
<1>2. PICK n \in 0..MaxUint : n = conn[i].streams + 1 /\ conn' = SetStreams(conn, i, n)
  <2>1. conn[i].streams + 1 \in 0..MaxUint
    BY RecordFacts, NodeAssumption DEF OpenStream, Ownership
  <2> QED  BY <2>1, Zenon DEF OpenStream, SetStreams
<1>3. /\ Shape(conn') /\ conn[i].gen \in Generations
      /\ CountedOf(conn, i, conn[i].gen) = conn[i].streams /\ CountedOf(conn', i, conn[i].gen) = n
      /\ \A j \in Ids, h \in Generations :
             j # i \/ h # conn[i].gen => CountedOf(conn', j, h) = CountedOf(conn, j, h)
  <2>1. Shape(conn) /\ conn[i].gen # Absent
    BY Zenon DEF Ownership, OpenStream
  <2> QED  BY <1>2, <2>1, CurrentCounts
<1>4. /\ stream[s].st # "open" /\ stream'[s].st = "open" /\ stream'[s].id = i /\ stream'[s].gen = conn[i].gen
      /\ \A r \in Streams \ {s} : stream'[r] = stream[r]
  BY Zenon DEF OpenStream
<1>5. Conserved(conn', stream')
  <2>1. CountedOf(conn', i, conn[i].gen) = CountedOf(conn, i, conn[i].gen) + 1 /\ Shape(conn)
    BY <1>2, <1>3, Zenon DEF Ownership
  <2> QED  BY <1>1, <1>3, <1>4, <2>1, BothMove
<1>6. ~Forced' /\ \A d \in Drainers : drain'[d].pc = "idle"
  BY <1>1, Zenon DEF Forced, OpenStream
<1>7. \A r \in OpenOf(stream') : stream'[r].id \in Ids /\ stream'[r].gen \in Generations
  BY <1>3, <1>4, SMTT(30) DEF OpenOf, Ownership
<1> QED  BY <1>3, <1>5, <1>6, <1>7, Zenon DEF Ownership

(* The stream that is closed is counted, by its connector's current generation *)
(* or by a retired one.                                                        *)
LEMMA ClosedIsCounted ==
    ASSUME NEW cn, NEW sm, Shape(cn), Conserved(cn, sm), NEW s \in OpenOf(sm),
           NEW i \in Ids, NEW g \in Generations, i = sm[s].id, g = sm[s].gen
    PROVE  (cn[i].gen = g /\ cn[i].streams > 0) \/ (cn[i].gen # Absent /\ cn[i].retired[g] > 0)
<1>1. Cardinality(HeldOf(sm, i, g)) \in Nat /\ Cardinality(HeldOf(sm, i, g)) # 0
  <2>1. s \in HeldOf(sm, i, g)
    BY Zenon DEF HeldOf
  <2>2. IsFiniteSet(HeldOf(sm, i, g)) /\ Cardinality(HeldOf(sm, i, g)) \in Nat
    BY OpenIsFinite, Zenon
  <2> QED  BY <2>1, <2>2, FS_EmptySet, Zenon
<1>2. CountedOf(cn, i, g) > 0
  BY <1>1 DEF Conserved
<1>3. /\ cn[i].streams \in Nat /\ cn[i].gen \in Nat /\ cn[i].retired[g] \in Nat /\ g \in Nat
  BY RecordFacts, Zenon
<1>4. cn[i].retired[g] > 0 => g < cn[i].gen
  BY Zenon DEF Shape
<1>5. CASE cn[i].retired[g] > 0
  BY <1>3, <1>4, <1>5 DEF Absent
<1>6. CASE cn[i].retired[g] = 0
  BY <1>2, <1>3, <1>6 DEF CountedOf, Count
<1> QED  BY <1>3, <1>5, <1>6

LEMMA CloseOwns ==
    ASSUME Ownership, stream \in [Streams -> StreamType], drain \in [Drainers -> DrainType],
           NEW s \in Streams, CloseStream(s)
    PROVE  Ownership'
<1>1. s \in OpenOf(stream)
  BY Zenon DEF CloseStream, OpenOf
<1>2. PICK i \in Ids, g \in Generations : i = stream[s].id /\ g = stream[s].gen
  BY <1>1, Zenon DEF Ownership
<1> DEFINE current == conn[i].gen = g /\ conn[i].streams > 0
<1> DEFINE retired == ~current /\ conn[i].gen # Absent /\ conn[i].retired[g] > 0
<1>3. /\ stream' = [stream EXCEPT ![s].st = "closed"] /\ phase' = phase
      /\ conn' = CASE current -> SetStreams(conn, i, conn[i].streams - 1)
                   [] retired -> TakeRetired(conn, i, g)
                   [] OTHER -> conn
      /\ drain' = IF current \/ retired THEN Signal ELSE drain
  BY <1>2, Zenon DEF CloseStream, SetStreams, TakeRetired
<1>4. \A d \in Drainers : drain'[d].pc = drain[d].pc
  BY <1>3, SignalFacts, Zenon
<1>5. (Forced' <=> Forced) /\ (Fenced' <=> Fenced)
  BY <1>3, <1>4, Zenon DEF Forced, Fenced
<1>6. /\ stream'[s].st # "open" /\ stream[s].st = "open" /\ stream[s].id = i /\ stream[s].gen = g
      /\ \A r \in Streams \ {s} : stream[r] = stream'[r]
  <2>1. stream[s] \in StreamType /\ stream'[s] = [stream[s] EXCEPT !.st = "closed"]
    BY <1>3, Zenon
  <2>2. stream'[s].st = "closed"
    BY <2>1, Zenon DEF StreamType
  <2> QED  BY <1>1, <1>2, <1>3, <2>2, Zenon DEF OpenOf
<1>7. OpenOf(stream') \subseteq OpenOf(stream) /\ \A r \in OpenOf(stream') : stream'[r] = stream[r]
  BY <1>6, Zenon DEF OpenOf
<1>8. Shape(conn)
  BY Zenon DEF Ownership
<1> HIDE DEF current, retired
<1>9. CASE Forced
  <2>1. conn[i] = NoConnector
    BY <1>9, Zenon DEF Ownership
  <2>2. ~current /\ ~retired
    BY <2>1, NoConnectorFacts DEF current, retired
  <2>3. conn' = conn
    BY <1>3, <2>2, Zenon
  <2> QED  BY <1>4, <1>5, <1>7, <1>9, <2>3 DEF Ownership
<1>10. CASE ~Forced
  <2>1. Conserved(conn, stream)
    BY <1>10, Zenon DEF Ownership
  <2>2. current \/ retired
    BY <1>1, <1>2, <1>8, <2>1, ClosedIsCounted DEF current, retired
  <2>3. /\ Shape(conn')
        /\ CountedOf(conn, i, g) = CountedOf(conn', i, g) + 1
        /\ \A j \in Ids, h \in Generations : j # i \/ h # g => CountedOf(conn, j, h) = CountedOf(conn', j, h)
    <3>1. CASE current
      <4>1. conn' = SetStreams(conn, i, conn[i].streams - 1)
        BY <1>3, <3>1, Zenon DEF retired
      <4>2. conn[i].gen = g /\ conn[i].gen # Absent /\ conn[i].streams > 0 /\ conn[i].streams \in 0..MaxUint
        BY <1>8, <3>1, RecordFacts, Zenon DEF current
      <4>3. PICK n \in 0..MaxUint : n = conn[i].streams - 1 /\ conn[i].streams = n + 1
        BY <4>2, NodeAssumption
      <4>4. conn' = SetStreams(conn, i, n)
        BY <4>1, <4>3, Zenon
      <4>5. /\ Shape(conn') /\ CountedOf(conn, i, g) = conn[i].streams /\ CountedOf(conn', i, g) = n
            /\ \A j \in Ids, h \in Generations :
                   j # i \/ h # g => CountedOf(conn', j, h) = CountedOf(conn, j, h)
        BY <1>8, <4>2, <4>4, CurrentCounts
      <4> QED  BY <4>3, <4>5, Zenon
    <3>2. CASE ~current
      <4>1. conn[i].retired[g] > 0
        BY <2>2, <3>2, Zenon DEF retired
      <4>2. conn' = TakeRetired(conn, i, g)
        BY <1>3, <2>2, <3>2, Zenon
      <4>3. /\ Shape(conn') /\ CountedOf(conn, i, g) = CountedOf(conn', i, g) + 1
            /\ \A j \in Ids, h \in Generations :
                   j # i \/ h # g => CountedOf(conn', j, h) = CountedOf(conn, j, h)
        BY <1>8, <4>1, <4>2, RetiredCounts
      <4> QED  BY <4>3, Zenon
    <3> QED  BY <3>1, <3>2, Zenon
  <2>4. Conserved(conn', stream')
    BY <1>6, <1>8, <2>1, <2>3, BothMove
  <2> QED  BY <1>4, <1>5, <1>7, <1>10, <2>3, <2>4, Zenon DEF Ownership
<1> QED  BY <1>9, <1>10, Zenon

LEMMA DrainOwns ==
    ASSUME Ownership, drain \in [Drainers -> DrainType], NEW d \in Drainers,
           DrainBegins(d) \/ DrainLooks(d) \/ DrainWakes(d) \/ DrainForced(d)
    PROVE  Ownership'
<1>1. CASE DrainBegins(d)
  <2>1. conn' = conn /\ stream' = stream /\ Fenced'
    BY <1>1, Zenon DEF DrainBegins, BeginDrain, Fenced
  <2>2. drain[d].pc = "idle" /\ drain'[d].pc = "look" /\ \A e \in Drainers \ {d} : drain'[e] = drain[e]
    BY <1>1, Zenon DEF DrainBegins, DrainType
  <2>3. (Forced' <=> Forced)
        /\ ((\E e \in Drainers : drain'[e].pc = "drained") => \E e \in Drainers : drain[e].pc = "drained")
    BY <2>2, Zenon DEF Forced
  <2> QED  BY <2>1, <2>3, Zenon DEF Ownership
<1>2. CASE DrainLooks(d)
  <2>1. conn' = conn /\ stream' = stream /\ (Fenced' <=> Fenced)
    BY <1>2, Zenon DEF DrainLooks, Fenced
  <2>2. /\ drain[d].pc = "look" /\ drain'[d].pc = IF TotalStreams = 0 THEN "drained" ELSE "wait"
        /\ \A e \in Drainers \ {d} : drain'[e] = drain[e]
    BY <1>2, Zenon DEF DrainLooks
  <2>3. (Forced' <=> Forced) /\ \A e \in Drainers : drain'[e].pc # "idle" => drain[e].pc # "idle"
    BY <2>2, Zenon DEF Forced
  <2>4. ASSUME ~Forced, NEW e \in Drainers, drain'[e].pc = "drained"
        PROVE  OpenOf(stream) = {}
    <3>1. CASE e = d
      <4>1. saturatingUint32(Cardinality(UnitsOf(conn))) = 0
        BY <2>2, <2>4, <3>1, SameCounts DEF TotalStreams
      <4> QED  BY <2>4, <4>1, NothingHeld, Zenon DEF Ownership
    <3>2. CASE e # d
      BY <2>2, <2>4, <3>2, Zenon DEF Ownership
    <3> QED  BY <3>1, <3>2, Zenon
  <2> QED  BY <2>1, <2>3, <2>4, Zenon DEF Ownership
<1>3. CASE DrainWakes(d)
  <2>1. conn' = conn /\ stream' = stream /\ (Fenced' <=> Fenced)
    BY <1>3, Zenon DEF DrainWakes, Fenced
  <2>2. drain[d].pc = "wait" /\ drain'[d].pc = "look" /\ \A e \in Drainers \ {d} : drain'[e] = drain[e]
    BY <1>3, Zenon DEF DrainWakes, DrainType
  <2>3. /\ Forced' <=> Forced
        /\ \A e \in Drainers : drain'[e].pc # "idle" => drain[e].pc # "idle"
        /\ (\E e \in Drainers : drain'[e].pc = "drained") => \E e \in Drainers : drain[e].pc = "drained"
    BY <2>2, Zenon DEF Forced
  <2> QED  BY <2>1, <2>3, Zenon DEF Ownership
<1>4. CASE DrainForced(d)
  <2>1. conn' = [i \in Ids |-> NoConnector] /\ stream' = stream /\ (Fenced' <=> Fenced)
    BY <1>4, Zenon DEF DrainForced, Fenced
  <2>2. /\ drain[d].pc = "wait" /\ drain'[d].pc = "forced"
        /\ \A e \in Drainers \ {d} : drain'[e].pc = drain[e].pc
    BY <1>4, SignalFacts, Zenon DEF DrainForced
  <2>3. Forced' /\ Fenced
    BY <2>2, Zenon DEF Forced, Ownership
  <2>4. Shape(conn')
    BY <2>1, NoConnectorFacts DEF Shape
  <2> QED  BY <2>1, <2>3, <2>4 DEF Ownership
<1> QED  BY <1>1, <1>2, <1>3, <1>4, Zenon

(* The actions of the node worker and of the service.                          *)
BeatStep ==
    \/ Tick \/ ShutdownWorker \/ ShutdownTimesOut
    \/ ObserveStreams \/ ObservePhase
    \/ HeartbeatAccepted \/ HeartbeatStale \/ HeartbeatUnanswered
    \/ \E o \in late : LateHeartbeat(o)

LEMMA BeatFrame ==
    ASSUME BeatStep
    PROVE  UNCHANGED <<nodeVars, ownVars, stopping>>
  BY Zenon DEF BeatStep, Tick, ShutdownWorker, ShutdownTimesOut, ObserveStreams, ObservePhase,
         HeartbeatAccepted, HeartbeatStale, HeartbeatUnanswered, LateHeartbeat

LEMMA OwnershipIsKept ==
    ASSUME TypeOK, Ownership, Next
    PROVE  Ownership'
<1>1. drain \in [Drainers -> DrainType] /\ stream \in [Streams -> StreamType] /\ Shape(conn)
  BY Zenon DEF TypeOK, DrainType, StreamType, Ownership
<1>2. CASE MarkReady
  <2>1. UNCHANGED ownVars /\ ~Fenced
    BY <1>2, Zenon DEF MarkReady, Fenced
  <2> QED  BY <2>1, PhaseOwns, Zenon
<1>3. ASSUME NEW b \in BOOLEAN, SetControlAvailable(b)
      PROVE  Ownership'
  <2>1. UNCHANGED ownVars /\ (Fenced' <=> Fenced)
    BY <1>3, Zenon DEF SetControlAvailable, Fenced
  <2> QED  BY <2>1, PhaseOwns, Zenon
<1>4. CASE ServiceShutdown
  <2>1. UNCHANGED ownVars /\ Fenced'
    BY <1>4 DEF ServiceShutdown, BeginDrain, Fenced
  <2> QED  BY <2>1, PhaseOwns, Zenon
<1>5. CASE MarkStopped
  <2>1. UNCHANGED ownVars /\ Fenced'
    BY <1>5, Zenon DEF MarkStopped, Fenced
  <2> QED  BY <2>1, PhaseOwns, Zenon
<1>6. ASSUME NEW i \in Ids, NEW g \in Generations, AdmitConnector(i, g)
      PROVE  Ownership'
  <2>1. ~Fenced /\ UNCHANGED <<phase, stream, drain>> /\ conn[i].gen = Absent
        /\ conn' = Put(conn, i, Admitted(g))
    BY <1>6, Zenon DEF AdmitConnector, Fenced, Put, Admitted
  <2>2. Shape(conn') /\ \A j \in Ids, h \in Generations : CountedOf(conn', j, h) = CountedOf(conn, j, h)
    BY <1>1, <2>1, AdmitCounts
  <2> QED  BY <2>1, <2>2, ConnectorOwns, Zenon
<1>7. ASSUME NEW i \in Ids, NEW g \in Generations, ReplaceConnector(i, g)
      PROVE  Ownership'
  <2>1. /\ ~Fenced /\ UNCHANGED <<phase, stream, drain>> /\ conn[i].gen # Absent /\ g > conn[i].gen
        /\ conn' = Put(conn, i, Replaced(conn[i], g))
    BY <1>7, Zenon DEF ReplaceConnector, Fenced, Put, Replaced
  <2>2. Shape(conn') /\ \A j \in Ids, h \in Generations : CountedOf(conn', j, h) = CountedOf(conn, j, h)
    BY <1>1, <2>1, ReplaceCounts
  <2> QED  BY <2>1, <2>2, ConnectorOwns, Zenon
<1>8. ASSUME NEW i \in Ids, RemoveConnector(i)
      PROVE  Ownership'
  BY <1>1, <1>8, RemoveOwns, Zenon
<1>9. ASSUME NEW s \in Streams, NEW i \in Ids, OpenStream(s, i)
      PROVE  Ownership'
  BY <1>1, <1>9, OpenOwns, Zenon
<1>10. ASSUME NEW s \in Streams, CloseStream(s)
       PROVE  Ownership'
  BY <1>1, <1>10, CloseOwns
<1>11. ASSUME NEW d \in Drainers, DrainBegins(d) \/ DrainLooks(d) \/ DrainWakes(d) \/ DrainForced(d)
       PROVE  Ownership'
  BY <1>1, <1>11, DrainOwns, Zenon
<1>12. CASE BeatStep
  <2>1. UNCHANGED ownVars /\ (Fenced' <=> Fenced)
    BY <1>12, BeatFrame, Zenon DEF nodeVars, Fenced
  <2> QED  BY <2>1, PhaseOwns, Zenon
<1> QED  BY <1>2, <1>3, <1>4, <1>5, <1>6, <1>7, <1>8, <1>9, <1>10, <1>11, <1>12, Zenon DEF Next, BeatStep

-----------------------------------------------------------------------------
(* The types and the capacity                                                  *)

LEMMA TotalIsUint == TotalStreams \in 0..MaxUint
  BY UnitsAreFinite, SameCounts, NodeAssumption DEF TotalStreams, saturatingUint32

LEMMA OwnedIsFinite ==
    IsFiniteSet(Owned) /\ IsFiniteSet(Owned') /\ Cardinality(Owned) \in Nat /\ Cardinality(Owned') \in Nat
<1>1. Owned \subseteq Ids /\ Owned' \subseteq Ids
  BY Zenon DEF Owned
<1> QED  BY <1>1, NodeAssumption, FS_Subset, FS_CardinalityType

LEMMA CapacityIsKept ==
    ASSUME TypeOK, Ownership, Next
    PROVE  Cardinality(Owned') <= Capacity
<1>1. Shape(conn) /\ conn \in [Ids -> ConnectorType] /\ stream \in [Streams -> StreamType]
      /\ Cardinality(Owned) <= Capacity
  BY Zenon DEF TypeOK, Ownership, ConnectorType, StreamType
<1>2. ASSUME Owned' \subseteq Owned
      PROVE  Cardinality(Owned') <= Capacity
  <2>1. Cardinality(Owned') <= Cardinality(Owned)
    BY <1>2, OwnedIsFinite, FS_Subset, Zenon
  <2> QED  BY <1>1, <2>1, OwnedIsFinite, NodeAssumption
<1>3. CASE conn' = conn
  BY <1>2, <1>3, Zenon DEF Owned
<1>4. ASSUME NEW i \in Ids, NEW g \in Generations, AdmitConnector(i, g)
      PROVE  Cardinality(Owned') <= Capacity
  <2>1. Cardinality(Owned) < Capacity /\ i \notin Owned
    BY <1>4, Zenon DEF AdmitConnector, Owned
  <2>2. Owned' \subseteq Owned \cup {i}
    BY <1>1, <1>4, Zenon DEF AdmitConnector, Owned
  <2>3. Cardinality(Owned \cup {i}) = Cardinality(Owned) + 1 /\ IsFiniteSet(Owned \cup {i})
    BY <2>1, OwnedIsFinite, FS_AddElement
  <2>4. Cardinality(Owned') <= Cardinality(Owned \cup {i})
    BY <2>2, <2>3, FS_Subset
  <2> QED  BY <2>1, <2>3, <2>4, OwnedIsFinite, NodeAssumption
<1>5. ASSUME NEW i \in Ids, NEW g \in Generations, ReplaceConnector(i, g)
      PROVE  Cardinality(Owned') <= Capacity
  <2>1. i \in Owned /\ \A j \in Ids \ {i} : conn'[j] = conn[j]
    BY <1>1, <1>5 DEF ReplaceConnector, Owned
  <2> QED  BY <1>2, <2>1, Zenon DEF Owned
<1>6. ASSUME NEW i \in Ids, RemoveConnector(i)
      PROVE  Cardinality(Owned') <= Capacity
  <2>1. i \in Owned /\ \A j \in Ids \ {i} : conn'[j] = conn[j]
    BY <1>1, <1>6 DEF RemoveConnector, Owned
  <2> QED  BY <1>2, <2>1, Zenon DEF Owned
<1>7. ASSUME NEW s \in Streams, NEW i \in Ids, OpenStream(s, i)
      PROVE  Cardinality(Owned') <= Capacity
  <2>1. i \in Owned /\ \A j \in Ids \ {i} : conn'[j] = conn[j]
    BY <1>1, <1>7 DEF OpenStream, Owned
  <2> QED  BY <1>2, <2>1, Zenon DEF Owned
<1>8. ASSUME NEW s \in Streams, CloseStream(s)
      PROVE  Cardinality(Owned') <= Capacity
  <2>1. PICK i \in Ids, g \in Generations : i = stream[s].id /\ g = stream[s].gen
    BY <1>8, Zenon DEF CloseStream, OpenOf, Ownership
  <2>2. g \in Nat /\ g # Absent
    BY <1>1, RecordFacts
  <2>3. CASE conn[i].gen = Absent
    <3>1. conn' = conn
      BY <1>8, <2>1, <2>2, <2>3 DEF CloseStream
    <3> QED  BY <1>3, <3>1
  <2>4. CASE conn[i].gen # Absent
    <3>1. i \in Owned /\ \A j \in Ids \ {i} : conn'[j] = conn[j]
      BY <1>1, <1>8, <2>1, <2>4, Zenon DEF CloseStream, Owned
    <3> QED  BY <1>2, <3>1, SMTT(40) DEF Owned
  <2> QED  BY <2>3, <2>4
<1>9. ASSUME NEW d \in Drainers, DrainForced(d)
      PROVE  Cardinality(Owned') <= Capacity
  <2>1. Owned' = {}
    BY <1>9, NoConnectorFacts DEF DrainForced, Owned
  <2> QED  BY <1>2, <2>1
<1>10. ASSUME MarkReady \/ (\E b \in BOOLEAN : SetControlAvailable(b)) \/ ServiceShutdown \/ MarkStopped
       PROVE  conn' = conn
  BY <1>10, Zenon DEF MarkReady, SetControlAvailable, ServiceShutdown, MarkStopped, ownVars
<1>11. ASSUME NEW d \in Drainers, DrainBegins(d) \/ DrainLooks(d) \/ DrainWakes(d)
       PROVE  conn' = conn
  BY <1>11, Zenon DEF DrainBegins, DrainLooks, DrainWakes
<1>12. ASSUME BeatStep
       PROVE  conn' = conn
  BY <1>12, BeatFrame, Zenon DEF ownVars
<1> QED  BY <1>3, <1>4, <1>5, <1>6, <1>7, <1>8, <1>9, <1>10, <1>11, <1>12, SMTT(30) DEF Next, BeatStep

Pcs == {"streams", "phase", "send", "idle", "stopped", "failed"}
Calls == {"start", "tick", "again", "last"}
BeatType == [pc : Pcs, call : Calls, obs : Observations]

(* What TypeOK says of the other variables.                                    *)
PlainTypes ==
    /\ phase \in {"starting", "ready", "draining", "stopped"} /\ ready \in BOOLEAN
    /\ stream \in [Streams -> StreamType]
    /\ drain \in [Drainers -> DrainType]
    /\ stopping \in BOOLEAN

BeatTypes == beat \in BeatType /\ late \subseteq Observations /\ observed \in Observations

LEMMA PlainTypesKept ==
    ASSUME TypeOK, Ownership, Next
    PROVE  PlainTypes'
<1>1. PlainTypes
  BY Zenon DEF TypeOK, PlainTypes, StreamType, DrainType
<1>2. CASE MarkReady \/ (\E b \in BOOLEAN : SetControlAvailable(b)) \/ ServiceShutdown \/ MarkStopped
  BY <1>1, <1>2, Zenon DEF PlainTypes, MarkReady, SetControlAvailable, ServiceShutdown, BeginDrain, MarkStopped,
                    ownVars, beatVars
<1>3. ASSUME NEW i \in Ids, NEW g \in Generations, AdmitConnector(i, g) \/ ReplaceConnector(i, g)
      PROVE  PlainTypes'
  BY <1>1, <1>3, Zenon DEF PlainTypes, AdmitConnector, ReplaceConnector, beatVars
<1>4. ASSUME NEW i \in Ids, RemoveConnector(i)
      PROVE  PlainTypes'
  BY <1>1, <1>4, SignalFacts, Zenon DEF PlainTypes, RemoveConnector, beatVars
<1>5. ASSUME NEW s \in Streams, NEW i \in Ids, OpenStream(s, i)
      PROVE  PlainTypes'
  <2>1. conn[i].gen \in Generations \cup {Absent}
    BY RecordFacts, Zenon DEF Ownership
  <2>2. stream' \in [Streams -> StreamType]
    BY <1>1, <1>5, <2>1, Zenon DEF PlainTypes, OpenStream, StreamType
  <2> QED  BY <1>1, <1>5, <2>2, Zenon DEF PlainTypes, OpenStream, beatVars
<1>6. ASSUME NEW s \in Streams, CloseStream(s)
      PROVE  PlainTypes'
  <2>1. stream' \in [Streams -> StreamType]
    BY <1>1, <1>6 DEF PlainTypes, CloseStream, StreamType
  <2>2. drain' \in [Drainers -> DrainType]
    BY <1>1, <1>6, SignalFacts, Zenon DEF PlainTypes, CloseStream
  <2> QED  BY <1>1, <1>6, <2>1, <2>2, Zenon DEF PlainTypes, CloseStream, beatVars
<1>7. ASSUME NEW d \in Drainers, DrainBegins(d) \/ DrainLooks(d) \/ DrainWakes(d) \/ DrainForced(d)
      PROVE  PlainTypes'
  <2>1. drain' \in [Drainers -> DrainType]
    <3>1. drain \in [Drainers -> DrainType]
      BY <1>1, Zenon DEF PlainTypes
    <3>2. CASE DrainBegins(d) \/ DrainWakes(d)
      <4>1. drain' = [drain EXCEPT ![d] = [drain[d] EXCEPT !.pc = "look"]]
        BY <3>2, Zenon DEF DrainBegins, DrainWakes
      <4>2. [drain[d] EXCEPT !.pc = "look"] \in DrainType
        BY <3>1, Zenon DEF DrainType
      <4> QED  BY <3>1, <4>1, <4>2, Zenon
    <3>3. CASE DrainLooks(d)
      BY <3>1, <3>3, Zenon DEF DrainLooks, DrainType
    <3>4. CASE DrainForced(d)
      <4>1. Signal \in [Drainers -> DrainType]
        BY <3>1, SignalFacts, Zenon
      <4>2. [pc |-> "forced", woken |-> FALSE] \in DrainType
        BY Zenon DEF DrainType
      <4> QED  BY <3>4, <4>1, <4>2, Zenon DEF DrainForced
    <3> QED  BY <1>7, <3>2, <3>3, <3>4, Zenon
  <2> QED  BY <1>1, <1>7, <2>1, Zenon DEF PlainTypes, DrainBegins, DrainLooks, DrainWakes, DrainForced, BeginDrain, beatVars
<1>8. CASE BeatStep
  BY <1>1, <1>8, BeatFrame, Zenon DEF PlainTypes, nodeVars, ownVars
<1> QED  BY <1>2, <1>3, <1>4, <1>5, <1>6, <1>7, <1>8 DEF Next, BeatStep

(* The steps that are not the worker's leave its variables alone.              *)
OtherStep ==
    \/ MarkReady
    \/ \E b \in BOOLEAN : SetControlAvailable(b)
    \/ MarkStopped
    \/ \E i \in Ids, g \in Generations : AdmitConnector(i, g) \/ ReplaceConnector(i, g)
    \/ \E i \in Ids : RemoveConnector(i)
    \/ \E s \in Streams, i \in Ids : OpenStream(s, i)
    \/ \E s \in Streams : CloseStream(s)
    \/ \E d \in Drainers : DrainBegins(d) \/ DrainLooks(d) \/ DrainWakes(d) \/ DrainForced(d)

LEMMA OtherFrame ==
    ASSUME OtherStep
    PROVE  UNCHANGED beatVars
  BY Zenon DEF OtherStep, MarkReady, SetControlAvailable, MarkStopped, AdmitConnector, ReplaceConnector,
         RemoveConnector, OpenStream, CloseStream, DrainBegins, DrainLooks, DrainWakes, DrainForced

LEMMA NextCases == Next => OtherStep \/ ServiceShutdown \/ BeatStep
  BY Zenon DEF Next, OtherStep, BeatStep

(* The worker's record, and how it moves.                                      *)
LEMMA BeatMoves ==
    ASSUME BeatTypes, HeartbeatInv
    PROVE  /\ Tick => /\ beat.pc = "idle" /\ beat'.pc = "streams" /\ beat'.call = "tick"
                      /\ beat'.obs \in Observations /\ beat'.obs.at = beat.obs.at + 1
                      /\ beat'.obs.at < MaxBeats
           /\ ShutdownWorker =>
                      /\ beat.pc = "idle" /\ beat'.pc = "streams" /\ beat'.call = "last"
                      /\ beat'.obs \in Observations /\ beat'.obs.at = beat.obs.at + 1
           /\ ObserveStreams =>
                      /\ beat.pc = "streams" /\ beat'.pc = "phase" /\ beat'.call = beat.call
                      /\ beat'.obs \in Observations /\ beat'.obs.at = beat.obs.at
                      /\ beat'.obs.streams = TotalStreams
           /\ ObservePhase =>
                      /\ beat.pc = "phase" /\ beat'.pc = "send" /\ beat'.call = beat.call
                      /\ beat'.obs \in Observations /\ beat'.obs.at = beat.obs.at
                      /\ beat'.obs.streams = beat.obs.streams /\ beat'.obs.ready = (phase = "ready")
<1>1. beat \in BeatType /\ beat.obs \in Observations /\ beat.obs.at \in 0..MaxBeats /\ beat.obs.at \in Nat
  BY NodeAssumption DEF BeatTypes, BeatType, Observations
<1>2. beat.pc = "idle" => beat.call # "last" /\ beat.obs.at < MaxBeats
  BY Zenon DEF HeartbeatInv
<1>3. beat.obs.at < MaxBeats => beat.obs.at + 1 \in 0..MaxBeats
  BY <1>1, NodeAssumption
<1>4. ASSUME Tick
      PROVE  /\ beat.pc = "idle" /\ beat'.pc = "streams" /\ beat'.call = "tick"
             /\ beat'.obs \in Observations /\ beat'.obs.at = beat.obs.at + 1
             /\ beat'.obs.at < MaxBeats
  <2>1. beat.pc = "idle" /\ beat.obs.at < MaxBeats - 1 /\ beat.obs.at + 1 \in 0..MaxBeats
    BY <1>2, <1>3, <1>4, Zenon DEF Tick
  <2>2. beat'.pc = "streams" /\ beat'.call = "tick" /\ beat'.obs = [beat.obs EXCEPT !.at = @ + 1]
    BY <1>1, <1>4, Zenon DEF Tick, BeatType
  <2>3. beat'.obs \in Observations /\ beat'.obs.at = beat.obs.at + 1
    BY <1>1, <2>1, <2>2, Zenon DEF Observations
  <2> QED  BY <1>1, <2>1, <2>2, <2>3, NodeAssumption
<1>5. ASSUME ShutdownWorker
      PROVE  /\ beat.pc = "idle" /\ beat'.pc = "streams" /\ beat'.call = "last"
             /\ beat'.obs \in Observations /\ beat'.obs.at = beat.obs.at + 1
  <2>1. beat.pc = "idle" /\ beat.obs.at + 1 \in 0..MaxBeats
    BY <1>2, <1>3, <1>5, Zenon DEF ShutdownWorker
  <2>2. beat'.pc = "streams" /\ beat'.call = "last" /\ beat'.obs = [beat.obs EXCEPT !.at = @ + 1]
    BY <1>1, <1>5, Zenon DEF ShutdownWorker, BeatType
  <2>3. beat'.obs \in Observations /\ beat'.obs.at = beat.obs.at + 1
    BY <1>1, <2>1, <2>2, Zenon DEF Observations
  <2> QED  BY <2>1, <2>2, <2>3, Zenon
<1>6. ASSUME ObserveStreams
      PROVE  /\ beat.pc = "streams" /\ beat'.pc = "phase" /\ beat'.call = beat.call
             /\ beat'.obs \in Observations /\ beat'.obs.at = beat.obs.at
             /\ beat'.obs.streams = TotalStreams
  <2>1. beat.pc = "streams" /\ beat'.pc = "phase" /\ beat'.call = beat.call
        /\ beat'.obs = [beat.obs EXCEPT !.streams = TotalStreams]
    BY <1>1, <1>6, Zenon DEF ObserveStreams, BeatType
  <2> QED  BY <1>1, <2>1, TotalIsUint, Zenon DEF Observations
<1>7. ASSUME ObservePhase
      PROVE  /\ beat.pc = "phase" /\ beat'.pc = "send" /\ beat'.call = beat.call
             /\ beat'.obs \in Observations /\ beat'.obs.at = beat.obs.at
             /\ beat'.obs.streams = beat.obs.streams /\ beat'.obs.ready = (phase = "ready")
  <2>1. beat.pc = "phase" /\ beat'.pc = "send" /\ beat'.call = beat.call
        /\ beat'.obs = [beat.obs EXCEPT !.ready = phase = "ready", !.draining = phase = "draining"]
    BY <1>1, <1>7, Zenon DEF ObservePhase, BeatType
  <2> QED  BY <1>1, <2>1, Zenon DEF Observations
<1> QED  BY <1>4, <1>5, <1>6, <1>7, Zenon

LEMMA BeatTypesKept ==
    ASSUME BeatTypes, HeartbeatInv, Next
    PROVE  BeatTypes'
<1>1. beat \in BeatType /\ beat.obs \in Observations /\ beat.pc \in Pcs /\ beat.call \in Calls
      /\ late \subseteq Observations /\ observed \in Observations
  BY Zenon DEF BeatTypes, BeatType
<1>2. CASE OtherStep \/ ServiceShutdown
  BY <1>1, <1>2, OtherFrame, Zenon DEF BeatTypes, beatVars, ServiceShutdown
<1>3. CASE Tick \/ ShutdownWorker \/ ObserveStreams \/ ObservePhase
  <2>1. beat'.obs \in Observations /\ late' = late /\ observed' = observed
    BY <1>3, BeatMoves, Zenon DEF Tick, ShutdownWorker, ObserveStreams, ObservePhase
  <2>2. beat' = [pc |-> beat'.pc, call |-> beat'.call, obs |-> beat'.obs]
    BY <1>1, <1>3, Zenon DEF Tick, ShutdownWorker, ObserveStreams, ObservePhase, BeatType
  <2>3. beat'.pc \in Pcs /\ beat'.call \in Calls
    BY <1>1, <1>3, BeatMoves, Zenon DEF Pcs, Calls
  <2> QED  BY <1>1, <2>1, <2>2, <2>3, Zenon DEF BeatTypes, BeatType
<1>4. CASE ShutdownTimesOut
  BY <1>1, <1>4, Zenon DEF ShutdownTimesOut, BeatTypes, BeatType, Pcs
<1>5. CASE HeartbeatAccepted
  BY <1>1, <1>5, Zenon DEF HeartbeatAccepted, BeatTypes, BeatType, Pcs
<1>6. CASE HeartbeatStale
  BY <1>1, <1>6, Zenon DEF HeartbeatStale, BeatTypes, BeatType, Pcs, Calls
<1>7. CASE HeartbeatUnanswered
  BY <1>1, <1>7, Zenon DEF HeartbeatUnanswered, BeatTypes, BeatType, Pcs
<1>8. ASSUME NEW o \in late, LateHeartbeat(o)
      PROVE  BeatTypes'
  BY <1>1, <1>8, Zenon DEF LateHeartbeat, BeatTypes
<1> QED  BY <1>2, <1>3, <1>4, <1>5, <1>6, <1>7, <1>8, NextCases, Zenon DEF BeatStep

LEMMA TypesKept ==
    ASSUME TypeOK, Ownership, HeartbeatInv, Next
    PROVE  TypeOK'
<1>1. conn' \in [Ids -> ConnectorType]
  BY OwnershipIsKept, Zenon DEF Ownership, Shape
<1>2. Cardinality(Owned') <= Capacity
  BY CapacityIsKept, Zenon
<1>3. PlainTypes'
  BY PlainTypesKept, Zenon
<1>4. BeatTypes'
  <2>1. BeatTypes
    BY Zenon DEF TypeOK, BeatTypes, BeatType, Pcs, Calls
  <2> QED  BY <2>1, BeatTypesKept, Zenon
<1> QED  BY <1>1, <1>2, <1>3, <1>4, Zenon
         DEF TypeOK, PlainTypes, BeatTypes, ConnectorType, StreamType, DrainType, BeatType, Pcs, Calls

-----------------------------------------------------------------------------
(* The heartbeats                                                              *)

(* While the node is fenced no stream is opened, and a forced drain stays.     *)
LEMMA FencedStep ==
    ASSUME TypeOK, OtherStep \/ ServiceShutdown
    PROVE  /\ Fenced => Fenced' /\ Open' \subseteq Open
           /\ Forced => Forced'
<1>1. drain \in [Drainers -> DrainType] /\ stream \in [Streams -> StreamType]
  BY Zenon DEF TypeOK, DrainType, StreamType
<1>2. Fenced => Fenced'
  BY Zenon DEF OtherStep, MarkReady, SetControlAvailable, ServiceShutdown, BeginDrain, MarkStopped, AdmitConnector,
         ReplaceConnector, RemoveConnector, OpenStream, CloseStream, DrainBegins, DrainLooks, DrainWakes,
         DrainForced, Fenced
<1>3. ASSUME Fenced
      PROVE  Open' \subseteq Open
  <2>1. CASE stream' = stream
    BY <2>1, Zenon DEF Open
  <2>2. ASSUME NEW s \in Streams, NEW i \in Ids, OpenStream(s, i)
        PROVE  FALSE
    BY <1>3, <2>2, Zenon DEF OpenStream, Fenced
  <2>3. ASSUME NEW s \in Streams, CloseStream(s)
        PROVE  Open' \subseteq Open
    <3>1. stream[s].st = "open" /\ \A r \in Streams \ {s} : stream'[r] = stream[r]
      BY <1>1, <2>3, Zenon DEF CloseStream
    <3> QED  BY <3>1, Zenon DEF Open
  <2> QED  BY <2>1, <2>2, <2>3, Zenon DEF OtherStep, MarkReady, SetControlAvailable, ServiceShutdown, MarkStopped,
         AdmitConnector, ReplaceConnector, RemoveConnector, DrainBegins, DrainLooks, DrainWakes,
         DrainForced, ownVars
<1>4. ASSUME NEW d \in Drainers, drain[d].pc = "forced"
      PROVE  drain'[d].pc = "forced"
  <2>1. \A e \in Drainers : Signal[e].pc = drain[e].pc
    BY <1>1, SignalFacts, Zenon
  <2>2. CASE drain' = drain
    BY <1>4, <2>2, Zenon
  <2>3. CASE drain' = Signal
    BY <1>4, <2>1, <2>3, Zenon
  <2>4. ASSUME NEW e \in Drainers, DrainBegins(e) \/ DrainLooks(e) \/ DrainWakes(e)
        PROVE  drain'[d].pc = "forced"
    <3>1. d # e
      BY <1>4, <2>4, Zenon DEF DrainBegins, DrainLooks, DrainWakes
    <3>2. drain'[d] = drain[d]
      BY <1>1, <2>4, <3>1, Zenon DEF DrainBegins, DrainLooks, DrainWakes
    <3> QED  BY <1>4, <3>2, Zenon
  <2>5. ASSUME NEW e \in Drainers, DrainForced(e)
        PROVE  drain'[d].pc = "forced"
    <3>1. drain' = [Signal EXCEPT ![e] = [pc |-> "forced", woken |-> FALSE]]
      BY <2>5, Zenon DEF DrainForced
    <3>2. Signal \in [Drainers -> DrainType]
      BY <1>1, SignalFacts, Zenon
    <3> QED  BY <1>4, <2>1, <3>1, <3>2, Zenon
  <2>6. ASSUME NEW s \in Streams, CloseStream(s)
        PROVE  drain' = Signal \/ drain' = drain
    BY <2>6, Zenon DEF CloseStream
  <2> QED  BY <2>2, <2>3, <2>4, <2>5, <2>6, Zenon DEF OtherStep, MarkReady, SetControlAvailable, ServiceShutdown,
         MarkStopped, AdmitConnector, ReplaceConnector, RemoveConnector, OpenStream, ownVars
<1>5. Forced => Forced'
  BY <1>4, Zenon DEF Forced
<1> QED  BY <1>2, <1>3, <1>5, Zenon

LEMMA FewerOpen ==
    ASSUME Open' \subseteq Open, NEW n \in Nat, n >= saturatingUint32(Cardinality(Open))
    PROVE  n >= saturatingUint32(Cardinality(Open'))
<1>1. IsFiniteSet(Open) /\ Cardinality(Open) \in Nat /\ Cardinality(Open') \in Nat
  BY OpenIsFinite, SameCounts, SameCountsNext, Zenon
<1>2. Cardinality(Open') <= Cardinality(Open)
  BY <1>1, FS_Subset, Zenon
<1> QED  BY <1>1, <1>2, NodeAssumption DEF saturatingUint32

LEMMA ReportedIsHeld ==
    ASSUME Ownership, ~Forced
    PROVE  TotalStreams = saturatingUint32(Cardinality(Open))
  BY SameCounts, Zenon DEF Ownership, Conserved, TotalStreams

LEMMA HeartbeatsKept ==
    ASSUME TypeOK, Ownership, HeartbeatInv, Next
    PROVE  HeartbeatInv'
<1>1. BeatTypes /\ BeatTypes'
  <2>1. BeatTypes
    BY Zenon DEF TypeOK, BeatTypes, BeatType, Pcs, Calls
  <2> QED  BY <2>1, BeatTypesKept, Zenon
<1>2. /\ beat \in BeatType /\ beat.obs \in Observations /\ beat.obs.at \in Nat /\ beat.obs.streams \in Nat
      /\ late \subseteq Observations /\ observed.at \in Nat /\ \A o \in late : o.at \in Nat
      /\ MaxBeats \in Nat
  BY <1>1, NodeAssumption DEF BeatTypes, BeatType, Observations
<1>3. CASE OtherStep \/ ServiceShutdown
  <2>1. (Fenced => Fenced' /\ Open' \subseteq Open) /\ (Forced => Forced')
    BY <1>3, FencedStep, Zenon
  <2>2. beat' = beat /\ late' = late /\ observed' = observed
    BY <1>3, OtherFrame, Zenon DEF beatVars, ServiceShutdown
  <2>3. stopping' => Fenced'
    BY <1>3, <2>1, OtherFrame, Zenon DEF beatVars, ServiceShutdown, BeginDrain, Fenced, HeartbeatInv
  <2>4. stopping => stopping'
    BY <1>3, OtherFrame, Zenon DEF beatVars, ServiceShutdown
  <2>5. beat.call = "last" /\ beat.pc \in {"phase", "send", "stopped"} =>
            Forced' \/ beat.obs.streams >= saturatingUint32(Cardinality(Open'))
    BY <1>2, <2>1, FewerOpen, Zenon DEF HeartbeatInv
  <2> QED  BY <2>2, <2>3, <2>4, <2>5, Zenon DEF HeartbeatInv
<1>4. ASSUME BeatStep
      PROVE  /\ stopping' = stopping /\ (Fenced' <=> Fenced) /\ (Forced' <=> Forced) /\ Open' = Open
             /\ stopping => Fenced
  BY <1>4, BeatFrame, Zenon DEF nodeVars, ownVars, Fenced, Forced, Open, HeartbeatInv
<1>5. CASE Tick
  <2>1. late' = late /\ observed' = observed /\ BeatStep
    BY <1>5, Zenon DEF Tick, BeatStep
  <2>2. beat'.pc = "streams" /\ beat'.call = "tick" /\ beat'.obs.at = beat.obs.at + 1 /\ beat'.obs.at < MaxBeats
    BY <1>1, <1>5, BeatMoves, Zenon
  <2>3. \A o \in late' \cup {observed'} : o.at <= beat'.obs.at
    BY <1>2, <2>1, <2>2 DEF HeartbeatInv
  <2> QED  BY <1>4, <2>1, <2>2, <2>3 DEF HeartbeatInv
<1>6. CASE ShutdownWorker
  <2>1. late' = late /\ observed' = observed /\ BeatStep /\ stopping
    BY <1>6, Zenon DEF ShutdownWorker, BeatStep
  <2>2. beat'.pc = "streams" /\ beat'.call = "last" /\ beat'.obs.at = beat.obs.at + 1
    BY <1>1, <1>6, BeatMoves, Zenon
  <2>3. \A o \in late' \cup {observed'} : o.at < beat'.obs.at /\ o.at <= beat'.obs.at
    BY <1>2, <2>1, <2>2 DEF HeartbeatInv
  <2> QED  BY <1>4, <2>1, <2>2, <2>3, Zenon DEF HeartbeatInv
<1>7. CASE ObserveStreams
  <2>1. late' = late /\ observed' = observed /\ BeatStep
    BY <1>7, Zenon DEF ObserveStreams, BeatStep
  <2>2. beat.pc = "streams" /\ beat'.pc = "phase" /\ beat'.call = beat.call
        /\ beat'.obs.at = beat.obs.at /\ beat'.obs.streams = TotalStreams
    BY <1>1, <1>7, BeatMoves, Zenon
  <2>3. Forced \/ beat'.obs.streams >= saturatingUint32(Cardinality(Open))
    BY <2>2, ReportedIsHeld, TotalIsUint
  <2> QED  BY <1>4, <2>1, <2>2, <2>3 DEF HeartbeatInv
<1>8. CASE ObservePhase
  <2>1. late' = late /\ observed' = observed /\ BeatStep
    BY <1>8, Zenon DEF ObservePhase, BeatStep
  <2>2. beat.pc = "phase" /\ beat'.pc = "send" /\ beat'.call = beat.call /\ beat'.obs.at = beat.obs.at
        /\ beat'.obs.streams = beat.obs.streams /\ beat'.obs.ready = (phase = "ready")
    BY <1>1, <1>8, BeatMoves, Zenon
  <2>3. beat.call = "last" => ~beat'.obs.ready
    BY <1>4, <2>1, <2>2, Zenon DEF HeartbeatInv, Fenced
  <2> QED  BY <1>4, <2>1, <2>2, <2>3 DEF HeartbeatInv
<1>9. CASE ShutdownTimesOut
  <2>1. /\ observed' = observed /\ BeatStep /\ late' \subseteq late \cup {beat.obs}
        /\ beat.call \in {"tick", "again"} /\ beat'.pc = "failed" /\ beat'.call = beat.call /\ beat'.obs = beat.obs
    BY <1>2, <1>9, Zenon DEF ShutdownTimesOut, BeatStep, BeatType
  <2>2. \A o \in late' \cup {observed'} : o.at <= beat'.obs.at
    BY <1>2, <2>1 DEF HeartbeatInv
  <2> QED  BY <1>4, <2>1, <2>2 DEF HeartbeatInv
<1>10. CASE HeartbeatAccepted
  <2>1. /\ observed' = beat.obs /\ BeatStep /\ late' = late /\ beat.pc = "send"
        /\ beat'.pc = (IF beat.call = "last" THEN "stopped" ELSE "idle")
        /\ beat'.call = beat.call /\ beat'.obs = beat.obs
    BY <1>2, <1>10, Zenon DEF HeartbeatAccepted, BeatStep, BeatType
  <2>2. \A o \in late' \cup {observed'} : o.at <= beat'.obs.at
    BY <1>2, <2>1 DEF HeartbeatInv
  <2> QED  BY <1>4, <2>1, <2>2 DEF HeartbeatInv
<1>11. CASE HeartbeatStale
  <2>1. /\ observed' = observed /\ BeatStep /\ late' = late /\ beat.pc = "send" /\ beat'.obs = beat.obs
        /\ beat'.pc = (CASE beat.call = "tick" -> "streams" [] beat.call = "again" -> "idle" [] OTHER -> "failed")
        /\ beat'.call = (IF beat.call = "tick" THEN "again" ELSE beat.call)
    BY <1>2, <1>11, Zenon DEF HeartbeatStale, BeatStep, BeatType
  <2> QED  BY <1>4, <2>1 DEF HeartbeatInv
<1>12. CASE HeartbeatUnanswered
  <2>1. /\ observed' = observed /\ BeatStep /\ late' \subseteq late \cup {beat.obs} /\ beat.pc = "send"
        /\ beat'.pc = (IF beat.call \in {"tick", "again"} THEN "idle" ELSE "failed")
        /\ beat'.call = beat.call /\ beat'.obs = beat.obs
    BY <1>2, <1>12, Zenon DEF HeartbeatUnanswered, BeatStep, BeatType
  <2>2. \A o \in late' \cup {observed'} : o.at <= beat'.obs.at
    BY <1>2, <2>1 DEF HeartbeatInv
  <2> QED  BY <1>4, <2>1, <2>2 DEF HeartbeatInv
<1>13. ASSUME NEW o \in late, LateHeartbeat(o)
       PROVE  HeartbeatInv'
  <2>1. late' \subseteq late /\ beat' = beat /\ BeatStep /\ observed' = IF o.at >= observed.at THEN o ELSE observed
    BY <1>13, Zenon DEF LateHeartbeat, BeatStep, AcceptsObservation
  <2>2. \A q \in late' \cup {observed'} : q.at <= beat'.obs.at
    BY <1>13, <2>1, Zenon DEF HeartbeatInv
  <2>3. beat.call = "last" /\ beat.pc = "stopped" => observed' = observed
    BY <1>2, <1>13, <2>1 DEF HeartbeatInv
  <2> QED  BY <1>4, <2>1, <2>2, <2>3 DEF HeartbeatInv
<1> QED  BY <1>3, <1>5, <1>6, <1>7, <1>8, <1>9, <1>10, <1>11, <1>12, <1>13, NextCases, Zenon DEF BeatStep

-----------------------------------------------------------------------------
(* The theorems                                                                *)

LEMMA NodeInit == Init => NodeInv
<1>1. SUFFICES ASSUME Init
               PROVE  NodeInv
  BY Zenon
<1>2. \A i \in Ids : conn[i] = NoConnector
  BY <1>1, Zenon DEF Init
<1>3. Shape(conn)
  <2>1. conn \in [Ids -> ConnectorType]
    BY <1>1, NoConnectorFacts, Zenon DEF Init
  <2> QED  BY <1>2, <2>1, NoConnectorFacts DEF Shape
<1>4. Owned = {} /\ Cardinality(Owned) <= Capacity
  <2>1. Owned = {}
    BY <1>2, NoConnectorFacts, Zenon DEF Owned
  <2> QED  BY <2>1, NodeAssumption, FS_EmptySet
<1>5. beat \in BeatType /\ observed \in Observations /\ beat.pc = "streams" /\ beat.call = "start"
      /\ beat.obs.at = 1 /\ observed.at = 0
  <2>1. Unobserved \in Observations /\ [Unobserved EXCEPT !.at = 1] \in Observations
        /\ [Unobserved EXCEPT !.at = 1].at = 1 /\ Unobserved.at = 0
    <3>1. 0 \in 0..MaxBeats /\ 1 \in 0..MaxBeats /\ 0 \in 0..MaxUint
      BY NodeAssumption
    <3> QED  BY <3>1, Zenon DEF Unobserved, Observations
  <2>2. beat = [pc |-> "streams", call |-> "start", obs |-> [Unobserved EXCEPT !.at = 1]]
        /\ observed = Unobserved
    BY <1>1, Zenon DEF Init
  <2> QED  BY <2>1, <2>2, Zenon DEF BeatType, Pcs, Calls
<1>6. TypeOK
  <2>1. conn \in [Ids -> ConnectorType] /\ stream \in [Streams -> StreamType] /\ drain \in [Drainers -> DrainType]
    BY <1>1, <1>3, Zenon DEF Init, Shape, StreamType, DrainType, FreeStream, NoDrain
  <2>2. phase \in {"starting", "ready", "draining", "stopped"} /\ ready \in BOOLEAN
        /\ stopping \in BOOLEAN /\ late \subseteq Observations
    BY <1>1, Zenon DEF Init
  <2> QED  BY <1>4, <1>5, <2>1, <2>2, Zenon DEF TypeOK, ConnectorType, StreamType, DrainType, BeatType, Pcs, Calls
<1>7. Ownership
  <2>1. \A d \in Drainers : drain[d].pc = "idle"
    BY <1>1, Zenon DEF Init, NoDrain
  <2>2. OpenOf(stream) = {}
    BY <1>1, Zenon DEF Init, FreeStream, OpenOf
  <2>3. \A i \in Ids, g \in Generations : CountedOf(conn, i, g) = 0 /\ HeldOf(stream, i, g) = {}
    BY <1>2, <2>2, NoConnectorFacts DEF CountedOf, Count, HeldOf
  <2>4. UnitsOf(conn) = {}
    BY <2>3 DEF UnitsOf
  <2>5. Conserved(conn, stream)
    BY <2>2, <2>3, <2>4, FS_EmptySet, Zenon DEF Conserved
  <2> QED  BY <1>2, <1>3, <2>1, <2>2, <2>5, Zenon DEF Ownership, Forced
<1>8. HeartbeatInv
  <2>1. stopping = FALSE /\ late = {}
    BY <1>1, Zenon DEF Init
  <2> QED  BY <1>5, <2>1, NodeAssumption DEF HeartbeatInv
<1> QED  BY <1>6, <1>7, <1>8, OwnsInv, Zenon DEF NodeInv

LEMMA NodeStep == NodeInv /\ [Next]_vars => NodeInv'
<1>1. SUFFICES ASSUME NodeInv, [Next]_vars
               PROVE  NodeInv'
  BY Zenon
<1>2. CASE Next
  <2>1. TypeOK /\ Ownership /\ HeartbeatInv
    BY <1>1, InvOwns, Zenon DEF NodeInv
  <2> QED  BY <1>2, <2>1, TypesKept, OwnershipIsKept, HeartbeatsKept, OwnsInvNext, Zenon DEF NodeInv
<1>3. CASE UNCHANGED vars
  <2>1. Owned' = Owned /\ Units' = Units /\ Open' = Open /\ (Forced' <=> Forced) /\ (Fenced' <=> Fenced)
        /\ \A i, g : Counted(i, g)' = Counted(i, g) /\ Held(i, g)' = Held(i, g)
    <3>1. conn' = conn /\ stream' = stream /\ drain' = drain /\ phase' = phase
      BY <1>3, Zenon DEF vars
    <3> QED  BY <3>1, SameCounts, SameCountsNext, Zenon DEF Owned, Forced, Fenced
  <2>2. TypeOK'
    BY <1>1, <1>3, <2>1, Zenon DEF NodeInv, TypeOK, vars
  <2>3. ConnectorInv'
    <3>1. StreamConservation' /\ DrainedIsEmpty'
      BY <1>1, <1>3, <2>1, Zenon DEF NodeInv, ConnectorInv, StreamConservation, DrainedIsEmpty, vars
    <3> QED  BY <1>1, <1>3, <2>1, <3>1, Zenon DEF NodeInv, ConnectorInv, vars
  <2>4. HeartbeatInv'
    BY <1>1, <1>3, <2>1, Zenon DEF NodeInv, HeartbeatInv, vars
  <2> QED  BY <2>2, <2>3, <2>4, Zenon DEF NodeInv
<1> QED  BY <1>1, <1>2, <1>3, Zenon

(* The inductive invariant of the manager's operations, Drain and the node     *)
(* worker's heartbeats (internal/node/manager.go, internal/runtime/node.go).   *)
THEOREM NodeInvariant == Spec => []NodeInv
<1>1. Init => NodeInv
  BY NodeInit, Zenon
<1>2. NodeInv /\ [Next]_vars => NodeInv'
  BY NodeStep, Zenon
<1> QED  BY <1>1, <1>2, PTL DEF Spec

(* Until a drain is forced, each generation of each connector counts exactly   *)
(* the streams its clients hold, through ReplaceConnector, RemoveConnector and *)
(* CloseStream of a retired generation, and so does totalStreamsLocked.        *)
THEOREM StreamsAreConserved == Spec => []StreamConservation
<1>1. NodeInv => StreamConservation
  BY Zenon DEF NodeInv, ConnectorInv
<1> QED  BY <1>1, NodeInvariant, PTL

(* A Drain that returned without being forced left no stream held, and none is *)
(* held afterwards: BeginDrain, under another lock, fences before the first    *)
(* look at the streams.                                                        *)
THEOREM DrainLeavesNothing == Spec => []DrainedIsEmpty
<1>1. NodeInv => DrainedIsEmpty
  BY Zenon DEF NodeInv, ConnectorInv
<1> QED  BY <1>1, NodeInvariant, PTL

(* A forced drain gives up ownership for good: CloseStream of a stream it cut  *)
(* counts nothing, and no connector comes back.                                *)
THEOREM ForcedDrainIsFinal == Spec => []ForcedIsFinal
<1>1. NodeInv => ForcedIsFinal
  <2>1. SUFFICES ASSUME NodeInv, Forced
                 PROVE  TotalStreams = 0 /\ Owned = {}
    BY Zenon DEF ForcedIsFinal
  <2>2. \A i \in Ids : conn[i] = NoConnector
    BY <2>1, Zenon DEF NodeInv, ConnectorInv
  <2>3. \A i \in Ids, g \in Generations : CountedOf(conn, i, g) = 0
    BY <2>2, NoConnectorFacts DEF CountedOf, Count
  <2>4. Units = {}
    BY <2>3, SameCounts DEF UnitsOf
  <2>5. Owned = {}
    BY <2>2, NoConnectorFacts, Zenon DEF Owned
  <2> QED  BY <2>4, <2>5, NodeAssumption, FS_EmptySet DEF TotalStreams, saturatingUint32
<1> QED  BY <1>1, NodeInvariant, PTL

(* When NodeWorker.Shutdown returned without an error, the control plane knows *)
(* the node as not ready and, unless a drain was forced, with no fewer streams *)
(* than are held, whichever earlier heartbeat arrives late.                    *)
THEOREM LastHeartbeatHolds == Spec => []LastHeartbeatStands
<1>1. NodeInv => LastHeartbeatStands
  BY Zenon DEF NodeInv, HeartbeatInv, LastHeartbeatStands
<1> QED  BY <1>1, NodeInvariant, PTL
=============================================================================
