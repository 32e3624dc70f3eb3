------------------------- MODULE SuperVersionProofs -------------------------
(***************************************************************************)
(* The reference counts of SuperVersions are exact, for any number of      *)
(* threads and of everything that Bounds limits: NoUseAfterFree and        *)
(* NoLeak.  Neither is inductive.  RefsCounted says what each reference    *)
(* stands for, and Fresh which SuperVersion a thread may have cached, for  *)
(* Scrape counts every pointer it finds as one to the old SuperVersion.    *)
(***************************************************************************)
EXTENDS SuperVersion, FiniteSetTheorems, SequenceTheorems, TLAPS

(* Where a read has the thread's cached reference, and where an iterator   *)
(* that is not open yet has its own.                                       *)
Borrowing == {"got", "pinning", "pinned", "read"}
Opening == {"pinned", "opening"}
Labels == {"idle", "gets", "iterators", "cleanup"} \cup Borrowing \cup Opening

(* The threads with a reference to sv in their cache or borrowed from it,  *)
(* those whose iterator has one, and the column family's: its own, and in  *)
(* an installation the old one and what Scrape has collected.              *)
Caches(t, sv) ==
    local_sv[t] = sv \/ (reader[t].at \in Borrowing /\ reader[t].read.sv = sv)
Iterates(t, sv) ==
    iterators[t].sv = sv \/ (reader[t].at \in Opening /\ reader[t].read.sv = sv)
Cache(sv) == {t \in Readers : Caches(t, sv)}
Pins(sv) == {t \in Readers : Iterates(t, sv)}
Own(sv) == (IF sv = super_version THEN 1 ELSE 0)
           + (IF sv = install.old THEN 1 + install.scraped ELSE 0)
RefsCounted ==
    \A sv \in 1..Len(svs) :
        svs[sv].refs = Cardinality(Cache(sv)) + Cardinality(Pins(sv)) + Own(sv)

(* What the variables look like, as far as the counts depend on them.      *)
IsList(s) == \E S : s \in Seq(S)
SVFields == {"mem", "imm", "current", "refs"}
ReadFields == {"sv", "snapshot", "explicit", "floor", "first"}
IsRead(r) == DOMAIN r = ReadFields /\ r.sv \in 0..Len(svs)
Shape ==
    /\ IsList(svs)
    /\ \A sv \in 1..Len(svs) : DOMAIN svs[sv] = SVFields /\ svs[sv].refs \in Int
    /\ super_version \in 1..Len(svs)
    /\ install.old \in 0..Len(svs) \ {super_version}
    /\ DOMAIN install = {"old", "todo", "scraped", "writer"}
    /\ install.scraped \in Nat /\ install.todo \subseteq Readers
    /\ install.old = 0 => install.todo = {}
    /\ DOMAIN reader = Readers /\ DOMAIN iterators = Readers
    /\ \A t \in Readers :
          /\ DOMAIN reader[t] = {"at", "read"} /\ reader[t].at \in Labels
          /\ IsRead(reader[t].read) /\ IsRead(iterators[t])
    /\ local_sv \in [Readers -> -1..Len(svs)]

(* The SuperVersion that thread t may find or leave in its cache: the      *)
(* installed one; in an installation the old one until the thread's        *)
(* pointer has been scraped, and then none.                                *)
Cacheable(t) == IF MutexFree THEN {super_version}
                ELSE IF t \in install.todo THEN {install.old} ELSE {}
FreshAt(t) ==
    /\ local_sv[t] > 0 => local_sv[t] \in Cacheable(t)
    /\ reader[t].at \in Borrowing /\ local_sv[t] = kSVInUse
          => reader[t].read.sv \in Cacheable(t)
    /\ reader[t].at \in Borrowing \cup {"gets", "iterators"}
          => local_sv[t] \in {kSVInUse, kSVObsolete}
    /\ reader[t].at \in {"idle", "opening", "cleanup"}
          => local_sv[t] # kSVInUse
    /\ reader[t].at \in Borrowing \cup Opening => reader[t].read.sv > 0
    /\ reader[t].at \in Opening \cup {"pinning", "iterators"}
          => iterators[t].sv = 0
Fresh == \A t \in Readers : FreshAt(t)

(* A SuperVersion without references is freed, or will be by the one who   *)
(* dropped the last.                                                       *)
Swept ==
    /\ \A t \in Readers : reader[t].at = "cleanup"
          => reader[t].read.sv > 0 /\ svs[reader[t].read.sv].refs = 0
    /\ \A sv \in 1..Len(svs) : svs[sv].refs = 0
          => \/ svs[sv] = Freed
             \/ \E t \in Readers : reader[t].at = "cleanup" /\ reader[t].read.sv = sv

Inv == Shape /\ Fresh /\ RefsCounted /\ Swept

-----------------------------------------------------------------------------
(* A list with one entry more, and with one entry changed.                 *)
LEMMA ListAppend ==
    ASSUME NEW s, IsList(s), NEW e
    PROVE  /\ IsList(Append(s, e)) /\ Len(s) \in Nat
           /\ Len(Append(s, e)) = Len(s) + 1
           /\ \A i \in 1..Len(s) : Append(s, e)[i] = s[i]
           /\ Append(s, e)[Len(s) + 1] = e
<1>1. PICK S : s \in Seq(S)
  BY Zenon DEF IsList
<1>2. s \in Seq(S \cup {e})
  BY <1>1, SeqMonotonic, Zenon
<1>3. Append(s, e) \in Seq(S \cup {e})
  BY <1>2, AppendProperties, Zenon
<1> QED
  BY <1>2, <1>3, AppendProperties, LenProperties DEF IsList

(* A list with one entry changed.                                          *)
LEMMA ListExcept ==
    ASSUME NEW s, IsList(s), NEW x \in 1..Len(s), NEW e
    PROVE  /\ IsList([s EXCEPT ![x] = e]) /\ Len(s) \in Nat
           /\ Len([s EXCEPT ![x] = e]) = Len(s)
           /\ \A i \in 1..Len(s) : [s EXCEPT ![x] = e][i] = IF i = x THEN e ELSE s[i]
<1>1. PICK S : s \in Seq(S)
  BY Zenon DEF IsList
<1>2. s \in Seq(S \cup {e})
  BY <1>1, SeqMonotonic, Zenon
<1>3. [s EXCEPT ![x] = e] \in Seq(S \cup {e})
  BY <1>2, ExceptSeq, Zenon
<1> QED
  BY <1>2, <1>3, ExceptSeq, LenProperties DEF IsList

(* What a change of one reference count, or of one whole SuperVersion,     *)
(* does to svs.                                                            *)
SetRefs(x, n) == svs' = [svs EXCEPT ![x].refs = n]
(* Ref and Unref of one SuperVersion leave the rest of the list.           *)
LEMMA RefsEffect ==
    ASSUME Shape, NEW x \in 1..Len(svs), NEW n \in Int, SetRefs(x, n)
    PROVE  /\ IsList(svs') /\ Len(svs') = Len(svs) /\ Len(svs) \in Nat
           /\ \A sv \in 1..Len(svs) :
                 /\ DOMAIN svs'[sv] = SVFields
                 /\ svs'[sv].refs = IF sv = x THEN n ELSE svs[sv].refs
                 /\ sv # x => svs'[sv] = svs[sv]
<1>1. IsList(svs) /\ DOMAIN svs[x] = SVFields
  BY Zenon DEF Shape
<1> DEFINE e == [svs[x] EXCEPT !.refs = n]
<1>2. svs' = [svs EXCEPT ![x] = e]
  BY Zenon DEF SetRefs
<1>3. DOMAIN e = SVFields /\ e.refs = n
  BY <1>1, Zenon DEF SVFields
<1>4. \A sv \in 1..Len(svs) : DOMAIN svs[sv] = SVFields
  BY Zenon DEF Shape
<1> HIDE DEF e
<1>5. IsList([svs EXCEPT ![x] = e])
  BY <1>1, ListExcept, Zenon
<1>6. Len([svs EXCEPT ![x] = e]) = Len(svs) /\ Len(svs) \in Nat
  BY <1>1, ListExcept, Zenon
<1>7. \A sv \in 1..Len(svs) : svs'[sv] = IF sv = x THEN e ELSE svs[sv]
  BY <1>1, <1>2, ListExcept
<1>8. IsList(svs') /\ Len(svs') = Len(svs)
  BY <1>2, <1>5, <1>6, Zenon
<1> QED
  BY <1>3, <1>4, <1>6, <1>7, <1>8, Zenon

(* A free leaves a SuperVersion without references and the rest of the     *)
(* list.                                                                   *)
LEMMA FreeEffect ==
    ASSUME Shape, NEW x \in 1..Len(svs), svs' = [svs EXCEPT ![x] = Freed]
    PROVE  /\ IsList(svs') /\ Len(svs') = Len(svs) /\ Len(svs) \in Nat
           /\ \A sv \in 1..Len(svs) :
                 /\ DOMAIN svs'[sv] = SVFields
                 /\ svs'[sv].refs = IF sv = x THEN 0 ELSE svs[sv].refs
                 /\ svs'[sv] = IF sv = x THEN Freed ELSE svs[sv]
<1>1. IsList(svs) /\ \A sv \in 1..Len(svs) : DOMAIN svs[sv] = SVFields
  BY Zenon DEF Shape
<1>2. DOMAIN Freed = SVFields /\ Freed.refs = 0
  BY Zenon DEF Freed, SVFields
<1>3. IsList([svs EXCEPT ![x] = Freed])
  BY <1>1, ListExcept, Zenon
<1>4. Len([svs EXCEPT ![x] = Freed]) = Len(svs) /\ Len(svs) \in Nat
  BY <1>1, ListExcept, Zenon
<1>5. \A sv \in 1..Len(svs) : svs'[sv] = IF sv = x THEN Freed ELSE svs[sv]
  BY <1>1, ListExcept
<1>6. IsList(svs') /\ Len(svs') = Len(svs)
  BY <1>3, <1>4, Zenon
<1> QED
  BY <1>1, <1>2, <1>4, <1>5, <1>6

(* A new SuperVersion, with the column family's reference.                 *)
LEMMA AppendEffect ==
    ASSUME Shape, NEW m, NEW i, NEW c, svs' = Append(svs, NewSuperVersion(m, i, c))
    PROVE  /\ IsList(svs') /\ Len(svs') = Len(svs) + 1 /\ Len(svs) \in Nat
           /\ \A sv \in 1..Len(svs) : svs'[sv] = svs[sv]
           /\ DOMAIN svs'[Len(svs')] = SVFields /\ svs'[Len(svs')].refs = 1
<1> DEFINE e == NewSuperVersion(m, i, c)
<1>1. DOMAIN e = SVFields /\ e.refs = 1
  BY Zenon DEF NewSuperVersion, SVFields
<1>2. IsList(svs) /\ svs' = Append(svs, e)
  BY Zenon DEF Shape
<1> HIDE DEF e
<1>3. IsList(Append(svs, e))
  BY <1>2, ListAppend, Zenon
<1>4. Len(Append(svs, e)) = Len(svs) + 1 /\ Len(svs) \in Nat
  BY <1>2, ListAppend, Zenon
<1>5. /\ \A sv \in 1..Len(svs) : Append(svs, e)[sv] = svs[sv]
      /\ Append(svs, e)[Len(svs) + 1] = e
  BY <1>2, ListAppend
<1>6. IsList(svs') /\ Len(svs') = Len(svs) + 1
  BY <1>2, <1>3, <1>4, Zenon
<1> QED
  BY <1>1, <1>2, <1>4, <1>5, <1>6, Zenon

(* The threads that hold a reference are finitely many.                    *)
LEMMA Finite ==
    ASSUME NEW sv
    PROVE  /\ IsFiniteSet(Cache(sv)) /\ Cardinality(Cache(sv)) \in Nat
           /\ IsFiniteSet(Pins(sv)) /\ Cardinality(Pins(sv)) \in Nat
<1>1. Cache(sv) \in SUBSET Readers /\ Pins(sv) \in SUBSET Readers
  BY Zenon DEF Cache, Pins
<1> QED
  BY <1>1, ReadersAssumption, FS_Subset, FS_CardinalityType, Zenon

(* A set that gains or loses one member.                                   *)
LEMMA CountOne ==
    ASSUME NEW S, NEW T, IsFiniteSet(S), IsFiniteSet(T), NEW t, S \ {t} = T \ {t}
    PROVE  Cardinality(T) = Cardinality(S) + (IF t \in T THEN 1 ELSE 0)
                                           - (IF t \in S THEN 1 ELSE 0)
<1>1. /\ Cardinality(S) \in Nat /\ Cardinality(T) \in Nat
  BY FS_CardinalityType, Zenon
<1>2. Cardinality(S \ {t}) = IF t \in S THEN Cardinality(S) - 1 ELSE Cardinality(S)
  BY FS_RemoveElement, Zenon
<1>3. Cardinality(T \ {t}) = IF t \in T THEN Cardinality(T) - 1 ELSE Cardinality(T)
  BY FS_RemoveElement, Zenon
<1> QED
  BY <1>1, <1>2, <1>3

(* At first the column family has the only reference.                      *)
LEMMA InitInv == Init => Inv
<1> SUFFICES ASSUME Init PROVE Inv
  BY Zenon
<1>1. /\ svs = <<NewSuperVersion(1, << >>, << >>)>> /\ super_version = 1
      /\ local_sv = [t \in Readers |-> 0] /\ install = NoInstall
      /\ iterators = [t \in Readers |-> NoRead]
      /\ reader = [t \in Readers |-> Idle]
  BY Zenon DEF Init, kSVObsolete
<1>2. Len(svs) = 1 /\ IsList(svs) /\ DOMAIN svs[1] = SVFields /\ svs[1].refs = 1
  <2> DEFINE e == NewSuperVersion(1, << >>, << >>)
  <2>1. DOMAIN e = SVFields /\ e.refs = 1 /\ svs = <<e>>
    BY <1>1, Zenon DEF NewSuperVersion, SVFields
  <2> HIDE DEF e
  <2>2. Len(<<e>>) = 1 /\ <<e>>[1] = e /\ <<e>> \in Seq({e})
    OBVIOUS
  <2> QED
    BY <2>1, <2>2, Zenon DEF IsList
<1>3. /\ DOMAIN NoRead = ReadFields /\ NoRead.sv = 0
      /\ DOMAIN Idle = {"at", "read"} /\ Idle.at = "idle" /\ Idle.read = NoRead
      /\ DOMAIN NoInstall = {"old", "todo", "scraped", "writer"}
      /\ NoInstall.old = 0 /\ NoInstall.todo = {} /\ NoInstall.scraped = 0
  BY Zenon DEF NoRead, ReadFields, Idle, NoInstall
<1>4. Shape
  BY <1>1, <1>2, <1>3 DEF Shape, IsRead, Labels
<1>5. Fresh /\ Swept
  BY <1>1, <1>2, <1>3 DEF Fresh, FreshAt, Swept, Borrowing, Opening, kSVInUse
<1>6. Cache(1) = {} /\ Pins(1) = {} /\ Own(1) = 1
  BY <1>1, <1>3 DEF Cache, Pins, Caches, Iterates, Own, Borrowing, Opening
<1>7. RefsCounted
  BY <1>2, <1>6, FS_EmptySet DEF RefsCounted
<1> QED
  BY <1>4, <1>5, <1>7, Zenon DEF Inv

(* A step of thread t that leaves the installed SuperVersion alone keeps   *)
(* the counts if it changes a count by what it changes of the thread's     *)
(* own references.                                                         *)
One(b) == IF b THEN 1 ELSE 0
Rest(t) ==
    /\ UNCHANGED <<super_version, install>>
    /\ DOMAIN reader' = Readers /\ DOMAIN iterators' = Readers
    /\ local_sv' \in [Readers -> -1..Len(svs)]
    /\ \A u \in Readers \ {t} : /\ reader'[u] = reader[u]
                                /\ iterators'[u] = iterators[u]
                                /\ local_sv'[u] = local_sv[u]
Refs(t) ==
    /\ IsList(svs') /\ Len(svs') = Len(svs)
    /\ \A sv \in 1..Len(svs) :
          /\ DOMAIN svs'[sv] = SVFields
          /\ svs'[sv].refs = svs[sv].refs
                + One(Caches(t, sv)') - One(Caches(t, sv))
                + One(Iterates(t, sv)') - One(Iterates(t, sv))
(* A thread whose step changes reference counts by just the references it  *)
(* takes or drops keeps RefsCounted.                                       *)
LEMMA ReaderCounts ==
    ASSUME Inv, NEW t \in Readers, Rest(t), Refs(t)
    PROVE  /\ RefsCounted'
           /\ \A sv \in 1..Len(svs) : svs'[sv].refs \in Int
<1>1. ASSUME NEW sv \in 1..Len(svs)
      PROVE  /\ svs'[sv].refs = Cardinality(Cache(sv)') + Cardinality(Pins(sv)') + Own(sv)'
             /\ svs'[sv].refs \in Int
  <2>1. Cache(sv) \ {t} = Cache(sv)' \ {t}
    BY Zenon DEF Cache, Caches, Rest
  <2>2. Pins(sv) \ {t} = Pins(sv)' \ {t}
    BY Zenon DEF Pins, Iterates, Rest
  <2>3. Cache(sv)' \in SUBSET Readers /\ Pins(sv)' \in SUBSET Readers
    BY Zenon DEF Cache, Pins
  <2>4. IsFiniteSet(Cache(sv)') /\ IsFiniteSet(Pins(sv)')
    BY <2>3, ReadersAssumption, FS_Subset, Zenon
  <2>5. /\ IsFiniteSet(Cache(sv)) /\ IsFiniteSet(Pins(sv))
        /\ Cardinality(Cache(sv)) \in Nat /\ Cardinality(Pins(sv)) \in Nat
    BY Finite, Zenon
  <2>6. /\ t \in Cache(sv) <=> Caches(t, sv)
        /\ t \in Cache(sv)' <=> Caches(t, sv)'
        /\ t \in Pins(sv) <=> Iterates(t, sv)
        /\ t \in Pins(sv)' <=> Iterates(t, sv)'
    BY Zenon DEF Cache, Pins
  <2>7. Cardinality(Cache(sv)') = Cardinality(Cache(sv)) + (IF t \in Cache(sv)' THEN 1 ELSE 0)
                                           - (IF t \in Cache(sv) THEN 1 ELSE 0)
    BY <2>1, <2>4, <2>5, CountOne, Zenon
  <2>8. Cardinality(Pins(sv)') = Cardinality(Pins(sv)) + (IF t \in Pins(sv)' THEN 1 ELSE 0)
                                           - (IF t \in Pins(sv) THEN 1 ELSE 0)
    BY <2>2, <2>4, <2>5, CountOne, Zenon
  <2>9. Own(sv)' = Own(sv) /\ Own(sv) \in Int
    BY DEF Rest, Own, Inv, Shape
  <2>10. svs[sv].refs = Cardinality(Cache(sv)) + Cardinality(Pins(sv)) + Own(sv)
    BY Zenon DEF Inv, RefsCounted
  <2>11. svs'[sv].refs = svs[sv].refs
                + (IF t \in Cache(sv)' THEN 1 ELSE 0) - (IF t \in Cache(sv) THEN 1 ELSE 0)
                + (IF t \in Pins(sv)' THEN 1 ELSE 0) - (IF t \in Pins(sv) THEN 1 ELSE 0)
    BY <2>6, Zenon DEF Refs, One
  <2> QED
    BY <2>5, <2>7, <2>8, <2>9, <2>10, <2>11
<1> QED
  BY <1>1, Zenon DEF RefsCounted, Refs

(* Such a step keeps all but Swept if the thread's own state stays right.  *)
ShapeAt(t) ==
    /\ DOMAIN reader[t] = {"at", "read"} /\ reader[t].at \in Labels
    /\ IsRead(reader[t].read) /\ IsRead(iterators[t])
(* Such a step keeps Shape and Fresh too, if it does so for its own        *)
(* thread.                                                                 *)
LEMMA ReaderStep ==
    ASSUME Inv, NEW t \in Readers, Rest(t), Refs(t), ShapeAt(t)', FreshAt(t)'
    PROVE  Shape' /\ Fresh' /\ RefsCounted'
<1>1. RefsCounted' /\ \A sv \in 1..Len(svs) : svs'[sv].refs \in Int
  BY ReaderCounts, Zenon
<1>2. Len(svs') = Len(svs) /\ \A u \in Readers : ShapeAt(u)
  BY Zenon DEF Refs, Inv, Shape, ShapeAt
<1>3. \A u \in Readers \ {t} : ShapeAt(u)'
  BY <1>2, Zenon DEF Rest, ShapeAt, IsRead
<1>4. \A u \in Readers \ {t} : FreshAt(u)'
  <2>1. \A u \in Readers \ {t} : FreshAt(u)
    BY Zenon DEF Inv, Fresh
  <2>2. \A u \in Readers \ {t} : Cacheable(u)' = Cacheable(u)
    BY Zenon DEF Rest, Cacheable, MutexFree
  <2> QED
    BY <2>1, <2>2, Zenon DEF Rest, FreshAt
<1>5. Fresh'
  BY <1>4, Zenon DEF Fresh
<1>6. \A u \in Readers : ShapeAt(u)'
  BY <1>3, Zenon
<1>7. Shape'
  BY <1>1, <1>2, <1>6, Zenon DEF Inv, Shape, Rest, Refs, ShapeAt
<1> QED
  BY <1>1, <1>5, <1>7, Zenon

(* What follows when a thread goes on in its call.                         *)
LEMMA GoesEffect ==
    ASSUME DOMAIN reader = Readers, NEW t \in Readers, NEW at, NEW r, Goes(t, at, r)
    PROVE  /\ DOMAIN reader' = Readers
           /\ DOMAIN reader'[t] = {"at", "read"}
           /\ reader'[t].at = at /\ reader'[t].read = r
           /\ \A u \in Readers \ {t} : reader'[u] = reader[u]
<1> DEFINE e == [at |-> at, read |-> r]
<1>1. DOMAIN e = {"at", "read"} /\ e.at = at /\ e.read = r
  BY Zenon
<1>2. reader' = [reader EXCEPT ![t] = e]
  BY Zenon DEF Goes
<1> HIDE DEF e
<1>3. /\ DOMAIN reader' = Readers /\ reader'[t] = e
      /\ \A u \in Readers \ {t} : reader'[u] = reader[u]
  BY <1>2
<1> QED
  BY <1>1, <1>3, Zenon

(* Counts that stay, and one that changes, as far as Swept goes.           *)
LEMMA SweptStays ==
    ASSUME Inv, NEW t \in Readers, Rest(t), svs' = svs,
           reader[t].at # "cleanup", reader'[t].at # "cleanup"
    PROVE  Swept'
<1> QED
  BY DEF Inv, Swept, Rest
(* Dropping the last reference keeps Swept when the thread goes on to      *)
(* clean up.                                                               *)
LEMMA SweptChange ==
    ASSUME Inv, NEW t \in Readers, Rest(t), NEW x \in 1..Len(svs), NEW n \in Nat,
           SetRefs(x, n), svs[x].refs # 0,
           reader[t].at # "cleanup",
           n = 0 => reader'[t].at = "cleanup",
           reader'[t].at = "cleanup" => reader'[t].read.sv = x /\ n = 0
    PROVE  Swept'
<1>1. /\ Len(svs') = Len(svs) /\ Len(svs) \in Nat
      /\ \A sv \in 1..Len(svs) :
            /\ svs'[sv].refs = IF sv = x THEN n ELSE svs[sv].refs
            /\ sv # x => svs'[sv] = svs[sv]
  <2>1. Shape /\ n \in Int
    BY DEF Inv
  <2> QED
    BY <2>1, RefsEffect
<1>2. ASSUME NEW u \in Readers, reader'[u].at = "cleanup"
      PROVE  reader'[u].read.sv > 0 /\ svs'[reader'[u].read.sv].refs = 0
  <2>1. CASE u = t
    BY <1>1, <1>2, <2>1
  <2>2. CASE u # t
    <3>1. reader'[u] = reader[u] /\ reader[u].read.sv \in 0..Len(svs)
      BY <2>2, Zenon DEF Rest, Inv, Shape, IsRead
    <3>2. reader[u].read.sv > 0 /\ svs[reader[u].read.sv].refs = 0
      BY <1>2, <3>1, Zenon DEF Inv, Swept
    <3> QED
      BY <1>1, <3>1, <3>2
  <2> QED
    BY <2>1, <2>2, Zenon
<1>3. ASSUME NEW sv \in 1..Len(svs), svs'[sv].refs = 0
      PROVE  \/ svs'[sv] = Freed
             \/ \E u \in Readers : reader'[u].at = "cleanup" /\ reader'[u].read.sv = sv
  <2>1. CASE sv = x
    BY <1>1, <1>3, <2>1, Zenon
  <2>2. CASE sv # x
    <3>1. svs'[sv] = svs[sv] /\ svs[sv].refs = 0
      BY <1>1, <1>3, <2>2, Zenon
    <3>2. \/ svs[sv] = Freed
          \/ \E u \in Readers : reader[u].at = "cleanup" /\ reader[u].read.sv = sv
      BY <3>1, Zenon DEF Inv, Swept
    <3> QED
      BY <3>1, <3>2 DEF Rest
  <2> QED
    BY <2>1, <2>2, Zenon
<1> QED
  BY <1>1, <1>2, <1>3, Zenon DEF Swept

(* A SuperVersion has at least the references of one thread and of the     *)
(* column family.                                                          *)
LEMMA Referenced ==
    ASSUME Inv, NEW t \in Readers, NEW sv \in 1..Len(svs)
    PROVE  /\ svs[sv].refs >= One(Caches(t, sv)) + One(Iterates(t, sv)) + Own(sv)
           /\ Own(sv) \in Nat /\ svs[sv].refs \in Nat
           /\ sv \in {super_version, install.old} => Own(sv) > 0
<1>1. Own(sv) \in Nat /\ (sv \in {super_version, install.old} => Own(sv) > 0)
  BY DEF Own, Inv, Shape
<1>2. svs[sv].refs = Cardinality(Cache(sv)) + Cardinality(Pins(sv)) + Own(sv)
  BY Zenon DEF Inv, RefsCounted
<1>3. Cardinality(Cache(sv)) \in Nat /\ Cardinality(Pins(sv)) \in Nat
  BY Finite, Zenon
<1>4. Caches(t, sv) => Cardinality(Cache(sv)) # 0
  BY Finite, FS_EmptySet, Zenon DEF Cache
<1>5. Iterates(t, sv) => Cardinality(Pins(sv)) # 0
  BY Finite, FS_EmptySet, Zenon DEF Pins
<1>6. Cardinality(Cache(sv)) >= One(Caches(t, sv)) /\ One(Caches(t, sv)) \in Nat
  BY <1>3, <1>4 DEF One
<1>7. Cardinality(Pins(sv)) >= One(Iterates(t, sv)) /\ One(Iterates(t, sv)) \in Nat
  BY <1>3, <1>5 DEF One
<1> QED
  BY <1>1, <1>2, <1>3, <1>6, <1>7

(* The exchange with kSVInUse takes the cached reference with it.          *)
LEMMA SwapInv ==
    ASSUME Inv, NEW t \in Readers, NEW op \in {"gets", "iterators"}, NEW s, Swap(t, op, s)
    PROVE  Inv'
<1> DEFINE at == IF local_sv[t] = kSVObsolete THEN op ELSE After(op)
           r == [NoRead EXCEPT !.sv = local_sv[t], !.floor = published,
                               !.snapshot = s, !.explicit = s # NoSnapshot]
<1>1. /\ reader[t].at = "idle" /\ (op = "iterators" => iterators[t] = NoRead)
      /\ UNCHANGED <<svs, super_version, install, iterators>>
      /\ local_sv' = [local_sv EXCEPT ![t] = kSVInUse]
      /\ Goes(t, at, r)
  BY Zenon DEF Swap
<1>2. r.sv = local_sv[t] /\ DOMAIN r = ReadFields /\ NoRead.sv = 0
  BY Zenon DEF NoRead, ReadFields
<1>3. /\ DOMAIN reader = Readers /\ DOMAIN iterators = Readers
      /\ Len(svs) \in Nat /\ local_sv \in [Readers -> -1..Len(svs)]
      /\ IsRead(iterators[t]) /\ IsList(svs)
      /\ \A sv \in 1..Len(svs) : DOMAIN svs[sv] = SVFields /\ svs[sv].refs \in Int
  BY ListAppend, Zenon DEF Inv, Shape
<1>4. FreshAt(t)
  BY Zenon DEF Inv, Fresh
<1> HIDE DEF r
<1>5. /\ DOMAIN reader' = Readers /\ DOMAIN reader'[t] = {"at", "read"}
      /\ reader'[t].at = at /\ reader'[t].read = r
      /\ \A u \in Readers \ {t} : reader'[u] = reader[u]
  BY <1>1, <1>3, GoesEffect, Zenon
<1>6. local_sv[t] \in 0..Len(svs) /\ (local_sv[t] > 0 => local_sv[t] \in Cacheable(t))
  BY <1>1, <1>3, <1>4 DEF FreshAt, kSVInUse
<1>7. /\ local_sv[t] = 0 => at = op
      /\ local_sv[t] > 0 => at = (IF op = "gets" THEN "got" ELSE "pinning")
      /\ at \in {"gets", "iterators", "got", "pinning"}
  BY <1>6 DEF kSVObsolete, After
<1> HIDE DEF at
<1>8. Rest(t)
  BY <1>1, <1>3, <1>5 DEF Rest, kSVInUse
<1>9. Refs(t)
  <2>1. \A sv \in 1..Len(svs) : Caches(t, sv)' <=> Caches(t, sv)
    BY <1>1, <1>2, <1>3, <1>5, <1>6, <1>7 DEF Caches, Borrowing, kSVInUse
  <2>2. \A sv \in 1..Len(svs) : Iterates(t, sv)' <=> Iterates(t, sv)
    BY <1>1, <1>5, <1>7, Zenon DEF Iterates, Opening
  <2> QED
    BY <1>1, <1>3, <2>1, <2>2 DEF Refs, One
<1>10. ShapeAt(t)'
  BY <1>1, <1>2, <1>3, <1>5, <1>6, <1>7, Zenon DEF ShapeAt, IsRead, Labels, Borrowing
<1>11. FreshAt(t)'
  <2>1. Cacheable(t)' = Cacheable(t)
    BY <1>1, Zenon DEF Cacheable, MutexFree
  <2>2. local_sv'[t] = -1 /\ iterators'[t] = iterators[t]
    BY <1>1, <1>3, Zenon DEF kSVInUse
  <2> QED
    BY <1>1, <1>2, <1>5, <1>6, <1>7, <2>1, <2>2
       DEF FreshAt, Borrowing, Opening, kSVInUse, kSVObsolete
<1>12. Swept'
  BY <1>1, <1>5, <1>7, <1>8, SweptStays, Zenon
<1> QED
  BY <1>8, <1>9, <1>10, <1>11, <1>12, ReaderStep, Zenon DEF Inv

(* What the invariant says of one thread and of svs.                       *)
LEMMA ThreadIs ==
    ASSUME Inv, NEW t \in Readers
    PROVE  /\ DOMAIN reader = Readers /\ DOMAIN iterators = Readers
           /\ Len(svs) \in Nat /\ local_sv \in [Readers -> -1..Len(svs)]
           /\ DOMAIN reader[t] = {"at", "read"} /\ reader[t].at \in Labels
           /\ IsRead(reader[t].read) /\ IsRead(iterators[t]) /\ IsList(svs)
           /\ \A sv \in 1..Len(svs) : DOMAIN svs[sv] = SVFields /\ svs[sv].refs \in Int
           /\ super_version \in 1..Len(svs) /\ FreshAt(t)
<1> QED
  BY ListAppend, Zenon DEF Inv, Shape, Fresh

(* A read that finds nothing cached takes a reference under the mutex.     *)
LEMMA RefInv ==
    ASSUME Inv, NEW t \in Readers, RefSuperVersion(t)
    PROVE  Inv'
<1> DEFINE at == After(reader[t].at)
           r == [reader[t].read EXCEPT !.sv = super_version]
           n == svs[super_version].refs + 1
<1>1. /\ reader[t].at \in {"gets", "iterators"} /\ MutexFree
      /\ UNCHANGED <<super_version, install, iterators, local_sv>>
      /\ SetRefs(super_version, n)
      /\ Goes(t, at, r)
  BY Zenon DEF RefSuperVersion, SetRefs
<1>2. /\ DOMAIN reader = Readers /\ DOMAIN iterators = Readers
      /\ Len(svs) \in Nat /\ local_sv \in [Readers -> -1..Len(svs)]
      /\ IsRead(reader[t].read) /\ IsRead(iterators[t])
      /\ svs[super_version].refs \in Int
      /\ super_version \in 1..Len(svs) /\ FreshAt(t)
  BY ThreadIs, Zenon
<1>3. r.sv = super_version /\ DOMAIN r = ReadFields
  BY <1>2, Zenon DEF IsRead, ReadFields
<1>4. svs[super_version].refs > 0
  <2>1. One(Caches(t, super_version)) >= 0 /\ One(Iterates(t, super_version)) >= 0
        /\ One(Caches(t, super_version)) \in Int /\ One(Iterates(t, super_version)) \in Int
    BY DEF One
  <2> QED
    BY <1>2, <2>1, Referenced
<1>a. n = svs[super_version].refs + 1 /\ n \in Nat /\ n # 0 /\ Shape
  BY <1>2, <1>4 DEF Inv
<1> HIDE DEF r, n
<1>5. /\ DOMAIN reader' = Readers /\ DOMAIN reader'[t] = {"at", "read"}
      /\ reader'[t].at = at /\ reader'[t].read = r
      /\ \A u \in Readers \ {t} : reader'[u] = reader[u]
  BY <1>1, <1>2, GoesEffect, Zenon
<1>6. at = IF reader[t].at = "gets" THEN "got" ELSE "pinning"
  BY <1>1, Zenon DEF After
<1> HIDE DEF at
<1>7. /\ IsList(svs') /\ Len(svs') = Len(svs)
      /\ \A sv \in 1..Len(svs) :
            /\ DOMAIN svs'[sv] = SVFields
            /\ svs'[sv].refs = IF sv = super_version THEN n ELSE svs[sv].refs
  <2>1. n \in Int
    BY <1>a
  <2> QED
    BY <1>1, <1>2, <1>a, <2>1, RefsEffect
<1>8. Rest(t)
  BY <1>1, <1>2, <1>5, Zenon DEF Rest
<1>9. Refs(t)
  <2>1. local_sv[t] <= 0
    BY <1>1, <1>2 DEF FreshAt, kSVInUse, kSVObsolete
  <2>2. \A sv \in 1..Len(svs) : ~Caches(t, sv) /\ (Caches(t, sv)' <=> sv = super_version)
    BY <1>1, <1>2, <1>3, <1>5, <1>6, <2>1 DEF Caches, Borrowing
  <2>3. \A sv \in 1..Len(svs) : Iterates(t, sv)' <=> Iterates(t, sv)
    BY <1>1, <1>5, <1>6, Zenon DEF Iterates, Opening
  <2>4. \A sv \in 1..Len(svs) : svs[sv].refs \in Int
    BY ThreadIs, Zenon
  <2> QED
    BY <1>a, <1>7, <2>2, <2>3, <2>4 DEF Refs, One
<1>10. ShapeAt(t)'
  BY <1>1, <1>2, <1>3, <1>5, <1>6, <1>7 DEF ShapeAt, IsRead, Labels, Borrowing
<1>11. FreshAt(t)'
  <2>1. Cacheable(t)' = Cacheable(t) /\ Cacheable(t) = {super_version}
    BY <1>1, Zenon DEF Cacheable, MutexFree
  <2> QED
    BY <1>1, <1>2, <1>3, <1>5, <1>6, <2>1 DEF FreshAt, Borrowing, Opening
<1>12. Swept'
  BY <1>1, <1>2, <1>4, <1>a, <1>5, <1>6, <1>8, SweptChange
<1> QED
  BY <1>8, <1>9, <1>10, <1>11, <1>12, ReaderStep, Zenon DEF Inv

(* A change of one reference count, as Refs has it.                        *)
LEMMA RefsChange ==
    ASSUME Inv, NEW t \in Readers, NEW x \in 1..Len(svs), NEW d \in Int,
           SetRefs(x, svs[x].refs + d),
           \A sv \in 1..Len(svs) :
               (IF sv = x THEN d ELSE 0)
                   = One(Caches(t, sv)') - One(Caches(t, sv))
                     + One(Iterates(t, sv)') - One(Iterates(t, sv))
    PROVE  Refs(t) /\ Len(svs') = Len(svs)
<1> DEFINE n == svs[x].refs + d
<1>1. Shape /\ n \in Int /\ n = svs[x].refs + d /\ SetRefs(x, n)
      /\ \A sv \in 1..Len(svs) : svs[sv].refs \in Int
  BY ThreadIs DEF Inv
<1> HIDE DEF n
<1>2. /\ IsList(svs') /\ Len(svs') = Len(svs)
      /\ \A sv \in 1..Len(svs) :
            /\ DOMAIN svs'[sv] = SVFields
            /\ svs'[sv].refs = IF sv = x THEN n ELSE svs[sv].refs
  BY <1>1, RefsEffect, Zenon
<1>3. ASSUME NEW sv \in 1..Len(svs)
      PROVE  svs'[sv].refs = svs[sv].refs
                + One(Caches(t, sv)') - One(Caches(t, sv))
                + One(Iterates(t, sv)') - One(Iterates(t, sv))
  <2>1. /\ One(Caches(t, sv)') \in Int /\ One(Caches(t, sv)) \in Int
        /\ One(Iterates(t, sv)') \in Int /\ One(Iterates(t, sv)) \in Int
    BY DEF One
  <2>2. (IF sv = x THEN d ELSE 0)
           = One(Caches(t, sv)') - One(Caches(t, sv)) + One(Iterates(t, sv)') - One(Iterates(t, sv))
    BY Zenon
  <2>3. svs'[sv].refs = svs[sv].refs + (IF sv = x THEN d ELSE 0) /\ svs[sv].refs \in Int
    BY <1>1, <1>2
  <2> QED
    BY <2>1, <2>2, <2>3
<1> QED
  BY <1>2, <1>3, Zenon DEF Refs
(* A step that leaves svs and the references of its thread leaves the      *)
(* counts.                                                                 *)
LEMMA RefsStay ==
    ASSUME Inv, NEW t \in Readers, svs' = svs,
           \A sv \in 1..Len(svs) : /\ Caches(t, sv)' <=> Caches(t, sv)
                                   /\ Iterates(t, sv)' <=> Iterates(t, sv)
    PROVE  Refs(t) /\ Len(svs') = Len(svs)
<1>1. IsList(svs) /\ \A sv \in 1..Len(svs) : DOMAIN svs[sv] = SVFields /\ svs[sv].refs \in Int
  BY ThreadIs, Zenon
<1> QED
  BY <1>1 DEF Refs, One

(* What a cache, a read or an iterator refers to has a positive count.     *)
LEMMA HasRefs ==
    ASSUME Inv, NEW t \in Readers, NEW sv \in 1..Len(svs),
           Caches(t, sv) \/ Iterates(t, sv)
    PROVE  svs[sv].refs \in Nat /\ svs[sv].refs > 0
<1>1. /\ svs[sv].refs >= One(Caches(t, sv)) + One(Iterates(t, sv)) + Own(sv)
      /\ Own(sv) \in Nat /\ svs[sv].refs \in Nat
  BY Referenced, Zenon
<1>2. /\ One(Caches(t, sv)) \in Nat /\ One(Iterates(t, sv)) \in Nat
      /\ One(Caches(t, sv)) = 1 \/ One(Iterates(t, sv)) = 1
  BY Zenon DEF One
<1> QED
  BY <1>1, <1>2

(* NewIterator takes a reference of its own.                               *)
LEMMA PinInv ==
    ASSUME Inv, NEW t \in Readers, PinSuperVersion(t)
    PROVE  Inv'
<1> DEFINE sv == reader[t].read.sv
<1>1. /\ reader[t].at = "pinning"
      /\ UNCHANGED <<super_version, install, iterators, local_sv>>
      /\ SetRefs(sv, svs[sv].refs + 1)
      /\ Goes(t, "pinned", reader[t].read)
  BY Zenon DEF PinSuperVersion, SetRefs
<1>2. /\ DOMAIN reader = Readers /\ DOMAIN iterators = Readers
      /\ Len(svs) \in Nat /\ local_sv \in [Readers -> -1..Len(svs)]
      /\ IsRead(reader[t].read) /\ IsRead(iterators[t]) /\ FreshAt(t)
  BY ThreadIs, Zenon
<1>3. sv \in 1..Len(svs) /\ Caches(t, sv) /\ iterators[t].sv = 0
  BY <1>1, <1>2 DEF IsRead, FreshAt, Caches, Borrowing
<1> HIDE DEF sv
<1>4. svs[sv].refs \in Nat /\ svs[sv].refs > 0
  BY <1>3, HasRefs, Zenon
<1>5. /\ DOMAIN reader' = Readers /\ DOMAIN reader'[t] = {"at", "read"}
      /\ reader'[t].at = "pinned" /\ reader'[t].read = reader[t].read
      /\ \A u \in Readers \ {t} : reader'[u] = reader[u]
  BY <1>1, <1>2, GoesEffect, Zenon
<1>6. Rest(t)
  BY <1>1, <1>2, <1>5, Zenon DEF Rest
<1>7. Refs(t) /\ Len(svs') = Len(svs)
  <2>1. \A x \in 1..Len(svs) : Caches(t, x)' <=> Caches(t, x)
    BY <1>1, <1>5, Zenon DEF Caches, Borrowing
  <2>2. \A x \in 1..Len(svs) : ~Iterates(t, x) /\ (Iterates(t, x)' <=> x = sv)
    BY <1>1, <1>3, <1>5 DEF Iterates, Opening, sv
  <2>3. \A x \in 1..Len(svs) : (IF x = sv THEN 1 ELSE 0)
           = One(Caches(t, x)') - One(Caches(t, x)) + One(Iterates(t, x)') - One(Iterates(t, x))
    BY <2>1, <2>2 DEF One
  <2> QED
    BY <1>1, <1>3, <2>3, RefsChange
<1>8. ShapeAt(t)'
  BY <1>1, <1>2, <1>5, <1>7, Zenon DEF ShapeAt, IsRead, Labels, Borrowing
<1>9. FreshAt(t)'
  <2>1. Cacheable(t)' = Cacheable(t)
    BY <1>1, Zenon DEF Cacheable, MutexFree
  <2> QED
    BY <1>1, <1>2, <1>3, <1>5, <2>1, Zenon DEF FreshAt, Borrowing, Opening
<1>10. Swept'
  <2> DEFINE n == svs[sv].refs + 1
  <2>1. n \in Nat /\ n # 0 /\ svs[sv].refs # 0 /\ SetRefs(sv, n)
    BY <1>1, <1>4
  <2> HIDE DEF n
  <2> QED
    BY <1>1, <1>3, <1>5, <1>6, <2>1, SweptChange, Zenon
<1> QED
  BY <1>6, <1>7, <1>8, <1>9, <1>10, ReaderStep, Zenon DEF Inv

(* GetImpl and NewIteratorImpl take no reference.                          *)
LEMMA GetImplInv ==
    ASSUME Inv, NEW t \in Readers, GetImpl(t)
    PROVE  Inv'
<1> DEFINE r == ChooseSnapshot(t)
<1>1. /\ reader[t].at = "got"
      /\ UNCHANGED <<svs, super_version, install, iterators, local_sv>>
      /\ Goes(t, "read", r)
  BY Zenon DEF GetImpl
<1>2. /\ DOMAIN reader = Readers /\ DOMAIN iterators = Readers
      /\ Len(svs) \in Nat /\ local_sv \in [Readers -> -1..Len(svs)]
      /\ IsRead(reader[t].read) /\ IsRead(iterators[t]) /\ FreshAt(t)
  BY ThreadIs
<1>3. r.sv = reader[t].read.sv /\ DOMAIN r = ReadFields
  BY <1>2, Zenon DEF IsRead, ReadFields, ChooseSnapshot
<1> HIDE DEF r
<1>4. /\ DOMAIN reader' = Readers /\ DOMAIN reader'[t] = {"at", "read"}
      /\ reader'[t].at = "read" /\ reader'[t].read = r
      /\ \A u \in Readers \ {t} : reader'[u] = reader[u]
  BY <1>1, <1>2, GoesEffect, Zenon
<1>5. Rest(t)
  BY <1>1, <1>2, <1>4 DEF Rest
<1>6. Refs(t) /\ Len(svs') = Len(svs)
  <2>1. \A x \in 1..Len(svs) : Caches(t, x)' <=> Caches(t, x)
    BY <1>1, <1>3, <1>4, Zenon DEF Caches, Borrowing
  <2>2. \A x \in 1..Len(svs) : Iterates(t, x)' <=> Iterates(t, x)
    BY <1>1, <1>4, Zenon DEF Iterates, Opening
  <2> QED
    BY <1>1, <2>1, <2>2, RefsStay, Zenon
<1>7. ShapeAt(t)'
  BY <1>1, <1>2, <1>3, <1>4, <1>6, Zenon DEF ShapeAt, IsRead, Labels, Borrowing
<1>8. FreshAt(t)'
  <2>1. Cacheable(t)' = Cacheable(t)
    BY <1>1, Zenon DEF Cacheable, MutexFree
  <2> QED
    BY <1>1, <1>2, <1>3, <1>4, <2>1, Zenon DEF FreshAt, Borrowing, Opening
<1>9. Swept'
  BY <1>1, <1>4, <1>5, SweptStays, Zenon
<1> QED
  BY <1>5, <1>6, <1>7, <1>8, <1>9, ReaderStep DEF Inv

(* An iterator that opens keeps the reference its thread took for it.      *)
LEMMA NewIteratorInv ==
    ASSUME Inv, NEW t \in Readers, NewIteratorImpl(t)
    PROVE  Inv'
<1> DEFINE r == ChooseSnapshot(t)
           i == [r EXCEPT !.first = Iterate(r.sv, r.snapshot)]
<1>1. /\ reader[t].at = "opening"
      /\ UNCHANGED <<svs, super_version, install, local_sv>>
      /\ iterators' = [iterators EXCEPT ![t] = i]
      /\ Goes(t, "idle", NoRead)
  BY Zenon DEF NewIteratorImpl
<1>2. /\ DOMAIN reader = Readers /\ DOMAIN iterators = Readers
      /\ Len(svs) \in Nat /\ local_sv \in [Readers -> -1..Len(svs)]
      /\ IsRead(reader[t].read) /\ IsRead(iterators[t]) /\ FreshAt(t)
  BY ThreadIs
<1>3. r.sv = reader[t].read.sv /\ DOMAIN r = ReadFields
  BY <1>2 DEF IsRead, ReadFields, ChooseSnapshot
<1> HIDE DEF r
<1>4. i.sv = reader[t].read.sv /\ DOMAIN i = ReadFields /\ NoRead.sv = 0 /\ DOMAIN NoRead = ReadFields
  BY <1>3, Zenon DEF ReadFields, NoRead
<1> HIDE DEF i
<1>5. /\ DOMAIN reader' = Readers /\ DOMAIN reader'[t] = {"at", "read"}
      /\ reader'[t].at = "idle" /\ reader'[t].read = NoRead
      /\ \A u \in Readers \ {t} : reader'[u] = reader[u]
  BY <1>1, <1>2, GoesEffect, Zenon
<1>6. /\ DOMAIN iterators' = Readers /\ iterators'[t] = i
      /\ \A u \in Readers \ {t} : iterators'[u] = iterators[u]
  BY <1>1, <1>2, Zenon
<1>7. Rest(t)
  BY <1>1, <1>2, <1>5, <1>6, Zenon DEF Rest
<1>8. Refs(t) /\ Len(svs') = Len(svs)
  <2>1. \A x \in 1..Len(svs) : Caches(t, x)' <=> Caches(t, x)
    BY <1>1, <1>5, Zenon DEF Caches, Borrowing
  <2>2. \A x \in 1..Len(svs) : Iterates(t, x)' <=> Iterates(t, x)
    BY <1>1, <1>2, <1>4, <1>5, <1>6 DEF Iterates, Opening, FreshAt
  <2> QED
    BY <1>1, <2>1, <2>2, RefsStay, Zenon
<1>9. ShapeAt(t)'
  BY <1>2, <1>4, <1>5, <1>6, <1>8 DEF ShapeAt, IsRead, Labels
<1>10. FreshAt(t)'
  <2>1. Cacheable(t)' = Cacheable(t)
    BY <1>1, Zenon DEF Cacheable, MutexFree
  <2> QED
    BY <1>1, <1>2, <1>5, <2>1, Zenon DEF FreshAt, Borrowing, Opening
<1>11. Swept'
  BY <1>1, <1>5, <1>7, SweptStays, Zenon
<1> QED
  BY <1>7, <1>8, <1>9, <1>10, <1>11, ReaderStep DEF Inv

(* The compare-and-swap puts the reference back into the cache ...         *)
LEMMA ReturnCachedInv ==
    ASSUME Inv, NEW t \in Readers, ReturnCached(t)
    PROVE  Inv'
<1> DEFINE sv == reader[t].read.sv
           at == IF reader[t].at = "pinned" THEN "opening" ELSE "idle"
           r == IF reader[t].at = "pinned" THEN reader[t].read ELSE NoRead
<1>1. /\ reader[t].at \in {"pinned", "read"} /\ local_sv[t] = kSVInUse
      /\ UNCHANGED <<svs, super_version, install, iterators>>
      /\ local_sv' = [local_sv EXCEPT ![t] = sv]
      /\ Goes(t, at, r)
  BY Zenon DEF ReturnCached, Returned, AfterReturn
<1>2. /\ DOMAIN reader = Readers /\ DOMAIN iterators = Readers
      /\ Len(svs) \in Nat /\ local_sv \in [Readers -> -1..Len(svs)]
      /\ IsRead(reader[t].read) /\ IsRead(iterators[t]) /\ FreshAt(t)
  BY ThreadIs
<1>3. /\ IsRead(r) /\ sv \in 1..Len(svs) /\ sv \in Cacheable(t)
      /\ NoRead.sv = 0 /\ DOMAIN NoRead = ReadFields
      /\ reader[t].at = "pinned" => r.sv = sv /\ at = "opening"
      /\ reader[t].at = "read" => at = "idle"
  BY <1>1, <1>2 DEF IsRead, FreshAt, Borrowing, NoRead, ReadFields
<1> HIDE DEF r, at
<1>4. /\ DOMAIN reader' = Readers /\ DOMAIN reader'[t] = {"at", "read"}
      /\ reader'[t].at = at /\ reader'[t].read = r
      /\ \A u \in Readers \ {t} : reader'[u] = reader[u]
  BY <1>1, <1>2, GoesEffect, Zenon
<1>5. /\ local_sv'[t] = sv /\ local_sv' \in [Readers -> -1..Len(svs)]
      /\ \A u \in Readers \ {t} : local_sv'[u] = local_sv[u]
  BY <1>1, <1>2, <1>3
<1>6. Rest(t)
  BY <1>1, <1>2, <1>4, <1>5, Zenon DEF Rest
<1>7. Refs(t) /\ Len(svs') = Len(svs)
  <2>1. \A x \in 1..Len(svs) : Caches(t, x)' <=> Caches(t, x)
    BY <1>1, <1>3, <1>4, <1>5 DEF Caches, Borrowing, kSVInUse
  <2>2. \A x \in 1..Len(svs) : Iterates(t, x)' <=> Iterates(t, x)
    BY <1>1, <1>3, <1>4, Zenon DEF Iterates, Opening
  <2> QED
    BY <1>1, <2>1, <2>2, RefsStay, Zenon
<1>8. ShapeAt(t)'
  BY <1>1, <1>2, <1>3, <1>4, <1>7, Zenon DEF ShapeAt, IsRead, Labels, Opening
<1>9. FreshAt(t)'
  <2>1. Cacheable(t)' = Cacheable(t)
    BY <1>1, Zenon DEF Cacheable, MutexFree
  <2> QED
    BY <1>1, <1>2, <1>3, <1>4, <1>5, <2>1 DEF FreshAt, Borrowing, Opening, kSVInUse
<1>10. Swept'
  BY <1>1, <1>3, <1>4, <1>6, SweptStays, Zenon
<1> QED
  BY <1>6, <1>7, <1>8, <1>9, <1>10, ReaderStep DEF Inv

(* ... and if a Scrape came first the reference is dropped.                *)
LEMMA ReturnStaleInv ==
    ASSUME Inv, NEW t \in Readers, ReturnStale(t)
    PROVE  Inv'
<1> DEFINE sv == reader[t].read.sv
           last == svs[sv].refs = 1
           at == IF reader[t].at = "pinned" THEN "opening"
                 ELSE IF last THEN "cleanup" ELSE "idle"
           r == IF reader[t].at = "pinned" THEN reader[t].read
                ELSE IF last THEN [NoRead EXCEPT !.sv = sv] ELSE NoRead
<1>1. /\ reader[t].at \in {"pinned", "read"} /\ local_sv[t] = kSVObsolete
      /\ UNCHANGED <<super_version, install, iterators, local_sv>>
      /\ SetRefs(sv, svs[sv].refs - 1)
      /\ Goes(t, at, r)
  BY Zenon DEF ReturnStale, Returned, AfterReturn, SetRefs
<1>2. /\ DOMAIN reader = Readers /\ DOMAIN iterators = Readers
      /\ Len(svs) \in Nat /\ local_sv \in [Readers -> -1..Len(svs)]
      /\ IsRead(reader[t].read) /\ IsRead(iterators[t]) /\ FreshAt(t)
  BY ThreadIs
<1>3. /\ sv \in 1..Len(svs) /\ Caches(t, sv)
      /\ NoRead.sv = 0 /\ DOMAIN NoRead = ReadFields
  BY <1>1, <1>2 DEF IsRead, FreshAt, Borrowing, NoRead, ReadFields, Caches
<1>4. /\ reader[t].at = "pinned" => r = reader[t].read /\ at = "opening"
      /\ reader[t].at = "read" =>
            /\ last => at = "cleanup" /\ r.sv = sv /\ DOMAIN r = ReadFields
            /\ ~last => at = "idle" /\ r = NoRead
  BY Zenon DEF NoRead, ReadFields
<1> HIDE DEF r, at, sv, last
<1>5. IsRead(r)
  <2>1. sv \in 0..Len(svs) /\ NoRead.sv \in 0..Len(svs)
    BY <1>2, <1>3
  <2> QED
    BY <1>1, <1>2, <1>3, <1>4, <2>1, Zenon DEF IsRead
<1>6. svs[sv].refs \in Nat /\ svs[sv].refs > 0
  BY <1>3, HasRefs, Zenon
<1>7. reader[t].at = "pinned" => svs[sv].refs > 1
  <2>1. /\ svs[sv].refs >= One(Caches(t, sv)) + One(Iterates(t, sv)) + Own(sv)
        /\ Own(sv) \in Nat
    BY <1>3, Referenced, Zenon
  <2>2. One(Caches(t, sv)) = 1 /\ (reader[t].at = "pinned" => One(Iterates(t, sv)) = 1)
    BY <1>3, Zenon DEF One, Iterates, Opening, sv
  <2> QED
    BY <1>6, <2>1, <2>2
<1>8. /\ DOMAIN reader' = Readers /\ DOMAIN reader'[t] = {"at", "read"}
      /\ reader'[t].at = at /\ reader'[t].read = r
      /\ \A u \in Readers \ {t} : reader'[u] = reader[u]
  BY <1>1, <1>2, GoesEffect, Zenon
<1>9. Rest(t)
  BY <1>1, <1>2, <1>8, Zenon DEF Rest
<1>10. Refs(t) /\ Len(svs') = Len(svs)
  <2>1. at \in {"opening", "cleanup", "idle"}
    BY <1>1, <1>4, Zenon
  <2>2. \A x \in 1..Len(svs) : ~Caches(t, x)' /\ (Caches(t, x) <=> x = sv)
    BY <1>1, <1>3, <1>8, <2>1 DEF Caches, Borrowing, kSVObsolete, sv
  <2>3. \A x \in 1..Len(svs) : Iterates(t, x)' <=> Iterates(t, x)
    BY <1>1, <1>4, <1>8, Zenon DEF Iterates, Opening
  <2>4. \A x \in 1..Len(svs) : (IF x = sv THEN -1 ELSE 0)
           = One(Caches(t, x)') - One(Caches(t, x)) + One(Iterates(t, x)') - One(Iterates(t, x))
    BY <2>2, <2>3 DEF One
  <2>5. SetRefs(sv, svs[sv].refs + (-1))
    BY <1>1, <1>6, Zenon
  <2> QED
    BY <1>3, <2>4, <2>5, RefsChange
<1>11. ShapeAt(t)'
  BY <1>1, <1>2, <1>4, <1>5, <1>8, <1>10, Zenon DEF ShapeAt, IsRead, Labels, Opening
<1>12. FreshAt(t)'
  <2>1. Cacheable(t)' = Cacheable(t)
    BY <1>1, Zenon DEF Cacheable, MutexFree
  <2> QED
    BY <1>1, <1>2, <1>4, <1>8, <2>1 DEF FreshAt, Borrowing, Opening, kSVInUse, kSVObsolete
<1>13. Swept'
  <2> DEFINE n == svs[sv].refs - 1
  <2>1. n \in Nat /\ (n = 0 <=> last) /\ svs[sv].refs # 0 /\ SetRefs(sv, n)
    BY <1>1, <1>6 DEF sv, last
  <2>2. reader[t].at = "pinned" => n # 0
    BY <1>6, <1>7
  <2> HIDE DEF n
  <2> QED
    BY <1>1, <1>3, <1>4, <1>8, <1>9, <2>1, <2>2, SweptChange, Zenon
<1> QED
  BY <1>9, <1>10, <1>11, <1>12, <1>13, ReaderStep DEF Inv

(* An iterator that is closed drops its reference.                         *)
LEMMA CloseIteratorInv ==
    ASSUME Inv, NEW t \in Readers, CloseIterator(t)
    PROVE  Inv'
<1> DEFINE sv == iterators[t].sv
           last == svs[sv].refs = 1
           r == [NoRead EXCEPT !.sv = sv]
<1>1. /\ reader[t].at = "idle" /\ sv > 0
      /\ UNCHANGED <<super_version, install, local_sv>>
      /\ iterators' = [iterators EXCEPT ![t] = NoRead]
      /\ SetRefs(sv, svs[sv].refs - 1)
      /\ last => Goes(t, "cleanup", r)
      /\ ~last => reader' = reader
  BY Zenon DEF CloseIterator, SetRefs
<1>2. /\ DOMAIN reader = Readers /\ DOMAIN iterators = Readers
      /\ Len(svs) \in Nat /\ local_sv \in [Readers -> -1..Len(svs)]
      /\ DOMAIN reader[t] = {"at", "read"}
      /\ IsRead(reader[t].read) /\ IsRead(iterators[t]) /\ FreshAt(t)
  BY ThreadIs, Zenon
<1>3. /\ sv \in 1..Len(svs) /\ Iterates(t, sv)
      /\ NoRead.sv = 0 /\ DOMAIN NoRead = ReadFields
      /\ r.sv = sv /\ DOMAIN r = ReadFields
  BY <1>1, <1>2 DEF IsRead, NoRead, ReadFields, Iterates
<1> HIDE DEF r, sv, last
<1>4. svs[sv].refs \in Nat /\ svs[sv].refs > 0
  BY <1>3, HasRefs, Zenon
<1>5. /\ DOMAIN reader' = Readers /\ DOMAIN reader'[t] = {"at", "read"}
      /\ last => reader'[t].at = "cleanup" /\ reader'[t].read = r
      /\ ~last => reader'[t] = reader[t]
      /\ \A u \in Readers \ {t} : reader'[u] = reader[u]
  BY <1>1, <1>2, GoesEffect, Zenon
<1>6. /\ DOMAIN iterators' = Readers /\ iterators'[t] = NoRead
      /\ \A u \in Readers \ {t} : iterators'[u] = iterators[u]
  BY <1>1, <1>2, Zenon
<1>7. Rest(t) /\ reader'[t].at \in {"idle", "cleanup"}
  BY <1>1, <1>2, <1>5, <1>6, Zenon DEF Rest
<1>8. Refs(t) /\ Len(svs') = Len(svs)
  <2>1. \A x \in 1..Len(svs) : Caches(t, x)' <=> Caches(t, x)
    BY <1>1, <1>7, Zenon DEF Caches, Borrowing
  <2>2. \A x \in 1..Len(svs) : ~Iterates(t, x)' /\ (Iterates(t, x) <=> x = sv)
    BY <1>1, <1>3, <1>6, <1>7 DEF Iterates, Opening, sv
  <2>3. \A x \in 1..Len(svs) : (IF x = sv THEN -1 ELSE 0)
           = One(Caches(t, x)') - One(Caches(t, x)) + One(Iterates(t, x)') - One(Iterates(t, x))
    BY <2>1, <2>2 DEF One
  <2>4. SetRefs(sv, svs[sv].refs + (-1))
    BY <1>1, <1>4, Zenon
  <2> QED
    BY <1>3, <2>3, <2>4, RefsChange
<1>9. ShapeAt(t)'
  <2>1. sv \in 0..Len(svs) /\ 0 \in 0..Len(svs)
    BY <1>2, <1>3
  <2> QED
    BY <1>1, <1>2, <1>3, <1>5, <1>6, <1>7, <1>8, <2>1, Zenon DEF ShapeAt, IsRead, Labels
<1>10. FreshAt(t)'
  <2>1. Cacheable(t)' = Cacheable(t)
    BY <1>1, Zenon DEF Cacheable, MutexFree
  <2> QED
    BY <1>1, <1>2, <1>7, <2>1, Zenon DEF FreshAt, Borrowing, Opening
<1>11. Swept'
  <2> DEFINE n == svs[sv].refs - 1
  <2>1. n \in Nat /\ (n = 0 <=> last) /\ svs[sv].refs # 0 /\ SetRefs(sv, n)
    BY <1>1, <1>4 DEF last
  <2> HIDE DEF n
  <2> QED
    BY <1>1, <1>3, <1>5, <1>7, <2>1, SweptChange, Zenon
<1> QED
  BY <1>7, <1>8, <1>9, <1>10, <1>11, ReaderStep, Zenon DEF Inv

(* A thread that exits drops its cached reference, which is not the last.  *)
LEMMA ThreadExitInv ==
    ASSUME Inv, NEW t \in Readers, ThreadExit(t)
    PROVE  Inv'
<1> DEFINE sv == local_sv[t]
<1>1. /\ reader[t].at = "idle" /\ sv > 0
      /\ UNCHANGED <<super_version, install, iterators, reader>>
      /\ local_sv' = [local_sv EXCEPT ![t] = kSVObsolete]
      /\ SetRefs(sv, svs[sv].refs - 1)
  BY Zenon DEF ThreadExit, SetRefs
<1>2. /\ DOMAIN reader = Readers /\ DOMAIN iterators = Readers
      /\ Len(svs) \in Nat /\ local_sv \in [Readers -> -1..Len(svs)]
      /\ DOMAIN reader[t] = {"at", "read"} /\ reader[t].at \in Labels
      /\ IsRead(reader[t].read) /\ IsRead(iterators[t]) /\ FreshAt(t)
  BY ThreadIs, Zenon
<1>3. /\ sv \in 1..Len(svs) /\ Caches(t, sv)
      /\ sv \in {super_version, install.old}
  BY <1>1, <1>2 DEF Caches, FreshAt, Cacheable
<1>4. /\ local_sv'[t] = 0 /\ local_sv' \in [Readers -> -1..Len(svs)]
      /\ \A u \in Readers \ {t} : local_sv'[u] = local_sv[u]
  BY <1>1, <1>2 DEF kSVObsolete
<1> HIDE DEF sv
<1>5. svs[sv].refs \in Nat /\ svs[sv].refs > 1
  <2>1. /\ svs[sv].refs >= One(Caches(t, sv)) + One(Iterates(t, sv)) + Own(sv)
        /\ Own(sv) \in Nat /\ Own(sv) > 0 /\ svs[sv].refs \in Nat
    BY <1>3, Referenced, Zenon
  <2>2. One(Caches(t, sv)) = 1 /\ One(Iterates(t, sv)) \in Nat
    BY <1>3, Zenon DEF One
  <2> QED
    BY <2>1, <2>2
<1>6. Rest(t)
  BY <1>1, <1>2, <1>4, Zenon DEF Rest
<1>7. Refs(t) /\ Len(svs') = Len(svs)
  <2>1. \A x \in 1..Len(svs) : ~Caches(t, x)' /\ (Caches(t, x) <=> x = sv)
    BY <1>1, <1>4 DEF Caches, Borrowing, sv
  <2>2. \A x \in 1..Len(svs) : Iterates(t, x)' <=> Iterates(t, x)
    BY <1>1, Zenon DEF Iterates
  <2>3. \A x \in 1..Len(svs) : (IF x = sv THEN -1 ELSE 0)
           = One(Caches(t, x)') - One(Caches(t, x)) + One(Iterates(t, x)') - One(Iterates(t, x))
    BY <2>1, <2>2 DEF One
  <2>4. SetRefs(sv, svs[sv].refs + (-1))
    BY <1>1, <1>5, Zenon
  <2> QED
    BY <1>3, <2>3, <2>4, RefsChange
<1>8. ShapeAt(t)'
  BY <1>1, <1>2, <1>7, Zenon DEF ShapeAt, IsRead
<1>9. FreshAt(t)'
  BY <1>1, <1>2, <1>4 DEF FreshAt, Borrowing, Opening, kSVInUse
<1>10. Swept'
  <2> DEFINE n == svs[sv].refs - 1
  <2>1. n \in Nat /\ n # 0 /\ svs[sv].refs # 0 /\ SetRefs(sv, n)
    BY <1>1, <1>5
  <2> HIDE DEF n
  <2> QED
    BY <1>1, <1>3, <1>6, <2>1, SweptChange, Zenon
<1> QED
  BY <1>6, <1>7, <1>8, <1>9, <1>10, ReaderStep DEF Inv

(* Whoever dropped the last reference frees the SuperVersion.              *)
LEMMA CleanupInv ==
    ASSUME Inv, NEW t \in Readers, Cleanup(t)
    PROVE  Inv'
<1> DEFINE sv == reader[t].read.sv
<1>1. /\ reader[t].at = "cleanup"
      /\ UNCHANGED <<super_version, install, iterators, local_sv>>
      /\ svs' = [svs EXCEPT ![sv] = Freed]
      /\ Goes(t, "idle", NoRead)
  BY Zenon DEF Cleanup
<1>2. /\ DOMAIN reader = Readers /\ DOMAIN iterators = Readers
      /\ Len(svs) \in Nat /\ local_sv \in [Readers -> -1..Len(svs)]
      /\ IsRead(reader[t].read) /\ IsRead(iterators[t]) /\ FreshAt(t)
      /\ \A x \in 1..Len(svs) : svs[x].refs \in Int
  BY ThreadIs, Zenon
<1>3. /\ sv \in 1..Len(svs) /\ svs[sv].refs = 0
      /\ NoRead.sv = 0 /\ DOMAIN NoRead = ReadFields
  BY <1>1, <1>2 DEF IsRead, NoRead, ReadFields, Inv, Swept
<1> HIDE DEF sv
<1>4. /\ DOMAIN reader' = Readers /\ DOMAIN reader'[t] = {"at", "read"}
      /\ reader'[t].at = "idle" /\ reader'[t].read = NoRead
      /\ \A u \in Readers \ {t} : reader'[u] = reader[u]
  BY <1>1, <1>2, GoesEffect, Zenon
<1>5. /\ IsList(svs') /\ Len(svs') = Len(svs)
      /\ \A x \in 1..Len(svs) :
            /\ DOMAIN svs'[x] = SVFields
            /\ svs'[x].refs = IF x = sv THEN 0 ELSE svs[x].refs
            /\ svs'[x] = IF x = sv THEN Freed ELSE svs[x]
  <2>1. Shape
    BY Zenon DEF Inv
  <2> QED
    BY <1>1, <1>3, <2>1, FreeEffect, Zenon
<1>6. Rest(t)
  BY <1>1, <1>2, <1>4, Zenon DEF Rest
<1>7. Refs(t)
  <2>1. \A x \in 1..Len(svs) : (Caches(t, x)' <=> Caches(t, x)) /\ (Iterates(t, x)' <=> Iterates(t, x))
    BY <1>1, <1>4, Zenon DEF Caches, Borrowing, Iterates, Opening
  <2>2. \A x \in 1..Len(svs) : svs'[x].refs = svs[x].refs
    BY <1>3, <1>5, Zenon
  <2>3. \A x \in 1..Len(svs) : /\ One(Caches(t, x)') = One(Caches(t, x))
                               /\ One(Iterates(t, x)') = One(Iterates(t, x))
                               /\ One(Caches(t, x)) \in Int /\ One(Iterates(t, x)) \in Int
    BY <2>1 DEF One
  <2>4. \A x \in 1..Len(svs) : svs[x].refs \in Int
    BY Zenon DEF Inv, Shape
  <2>5. ASSUME NEW x \in 1..Len(svs)
        PROVE  svs'[x].refs = svs[x].refs
                  + One(Caches(t, x)') - One(Caches(t, x))
                  + One(Iterates(t, x)') - One(Iterates(t, x))
    BY <2>2, <2>3, <2>4
  <2> QED
    BY <1>5, <2>5, Zenon DEF Refs
<1>8. ShapeAt(t)'
  BY <1>1, <1>2, <1>3, <1>4, <1>5 DEF ShapeAt, IsRead, Labels
<1>9. FreshAt(t)'
  <2>1. Cacheable(t)' = Cacheable(t)
    BY <1>1, Zenon DEF Cacheable, MutexFree
  <2> QED
    BY <1>1, <1>2, <1>4, <2>1, Zenon DEF FreshAt, Borrowing, Opening
<1>10. Swept'
  <2>1. ASSUME NEW u \in Readers, reader'[u].at = "cleanup"
        PROVE  reader'[u].read.sv > 0 /\ svs'[reader'[u].read.sv].refs = 0
    <3>1. u # t /\ reader'[u] = reader[u] /\ reader[u].read.sv \in 0..Len(svs)
      BY <1>4, <2>1, ThreadIs, Zenon DEF IsRead
    <3>2. reader[u].read.sv > 0 /\ svs[reader[u].read.sv].refs = 0
      BY <2>1, <3>1, Zenon DEF Inv, Swept
    <3> QED
      BY <1>2, <1>5, <3>1, <3>2
  <2>2. ASSUME NEW x \in 1..Len(svs), svs'[x].refs = 0, x # sv
        PROVE  \/ svs'[x] = Freed
               \/ \E u \in Readers : reader'[u].at = "cleanup" /\ reader'[u].read.sv = x
    <3>1. svs'[x] = svs[x] /\ svs[x].refs = 0
      BY <1>5, <2>2, Zenon
    <3>2. \/ svs[x] = Freed
          \/ \E u \in Readers : reader[u].at = "cleanup" /\ reader[u].read.sv = x
      BY <3>1, Zenon DEF Inv, Swept
    <3> QED
      BY <1>4, <2>2, <3>1, <3>2, Zenon DEF sv
  <2> QED
    BY <1>5, <2>1, <2>2, Zenon DEF Swept
<1> QED
  BY <1>6, <1>7, <1>8, <1>9, <1>10, ReaderStep DEF Inv

(* Steps that touch no reference.                                          *)
LEMMA QuietInv ==
    ASSUME Inv, UNCHANGED <<svs, super_version, local_sv, install, iterators, reader>>
    PROVE  Inv'
<1>1. Shape'
  BY Zenon DEF Inv, Shape, IsRead
<1>2. Fresh'
  BY Zenon DEF Inv, Fresh, FreshAt, Cacheable, MutexFree
<1>3. \A sv : Cache(sv)' = Cache(sv) /\ Pins(sv)' = Pins(sv) /\ Own(sv)' = Own(sv)
  BY Zenon DEF Cache, Pins, Own, Caches, Iterates
<1>4. RefsCounted'
  BY <1>3, Zenon DEF Inv, RefsCounted
<1>5. Swept'
  BY Zenon DEF Inv, Swept
<1> QED
  BY <1>1, <1>2, <1>4, <1>5, Zenon DEF Inv

(* A new SuperVersion is installed: the old one keeps the column family's  *)
(* reference until the installation is done.                               *)
LEMMA InstallInv ==
    ASSUME Inv, MutexFree, NEW m, NEW i, NEW c, NEW w,
           InstallSuperVersion(m, i, c, w), UNCHANGED <<local_sv, iterators, reader>>
    PROVE  Inv'
<1>1. /\ svs' = Append(svs, NewSuperVersion(m, i, c)) /\ super_version' = Len(svs')
      /\ DOMAIN install' = {"old", "todo", "scraped", "writer"}
      /\ install'.old = super_version /\ install'.todo = Readers /\ install'.scraped = 0
  BY Zenon DEF InstallSuperVersion
<1>2. /\ IsList(svs') /\ Len(svs') = Len(svs) + 1 /\ Len(svs) \in Nat
      /\ \A sv \in 1..Len(svs) : svs'[sv] = svs[sv]
      /\ DOMAIN svs'[Len(svs')] = SVFields /\ svs'[Len(svs')].refs = 1
  BY <1>1, AppendEffect, Zenon DEF Inv
<1>3. /\ super_version \in 1..Len(svs) /\ install.old = 0 /\ install.scraped \in Nat
      /\ local_sv \in [Readers -> -1..Len(svs)]
      /\ \A t \in Readers : IsRead(reader[t].read) /\ IsRead(iterators[t])
      /\ \A sv \in 1..Len(svs) : DOMAIN svs[sv] = SVFields /\ svs[sv].refs \in Int
  BY Zenon DEF Inv, Shape, MutexFree
<1>4. Shape'
  <2>1. ASSUME NEW sv \in 1..Len(svs')
        PROVE  DOMAIN svs'[sv] = SVFields /\ svs'[sv].refs \in Int
    <3>1. sv \in 1..Len(svs) \/ sv = Len(svs')
      BY <1>2
    <3>2. 1 \in Int
      OBVIOUS
    <3> QED
      BY <1>2, <1>3, <3>1, <3>2, Zenon
  <2>2. /\ super_version' \in 1..Len(svs')
        /\ install'.old \in 0..Len(svs') \ {super_version'}
        /\ install'.scraped \in Nat /\ install'.todo \subseteq Readers
        /\ install'.old # 0
    BY <1>1, <1>2, <1>3
  <2>3. local_sv' \in [Readers -> -1..Len(svs')]
    BY <1>2, <1>3
  <2>4. \A t \in Readers : IsRead(reader[t].read)' /\ IsRead(iterators[t])'
    BY <1>2, <1>3 DEF IsRead
  <2>5. /\ DOMAIN reader' = Readers /\ DOMAIN iterators' = Readers
        /\ \A t \in Readers : DOMAIN reader'[t] = {"at", "read"} /\ reader'[t].at \in Labels
    BY Zenon DEF Inv, Shape
  <2> QED
    BY <1>1, <1>2, <2>1, <2>2, <2>3, <2>4, <2>5, Zenon DEF Shape
<1>5. Fresh'
  <2>1. \A t \in Readers : FreshAt(t) /\ Cacheable(t) = {super_version}
    BY Zenon DEF Inv, Fresh, Cacheable
  <2>2. \A t \in Readers : Cacheable(t)' = {super_version}
    BY <1>1, <1>3 DEF Cacheable, MutexFree
  <2> QED
    BY <2>1, <2>2, Zenon DEF Fresh, FreshAt
<1>6. RefsCounted'
  <2>1. ASSUME NEW sv \in 1..Len(svs)
        PROVE  svs'[sv].refs = Cardinality(Cache(sv)') + Cardinality(Pins(sv)') + Own(sv)'
    <3>1. Cache(sv)' = Cache(sv) /\ Pins(sv)' = Pins(sv)
      BY Zenon DEF Cache, Pins, Caches, Iterates
    <3>2. Own(sv)' = Own(sv)
      BY <1>1, <1>2, <1>3 DEF Own
    <3>3. svs[sv].refs = Cardinality(Cache(sv)) + Cardinality(Pins(sv)) + Own(sv)
      BY Zenon DEF Inv, RefsCounted
    <3> QED
      BY <1>2, <3>1, <3>2, <3>3, Zenon
  <2>2. ASSUME NEW n, n = Len(svs')
        PROVE  svs'[n].refs = Cardinality(Cache(n)') + Cardinality(Pins(n)') + Own(n)'
    <3>1. n = Len(svs) + 1 /\ svs'[n].refs = 1
      BY <1>2, <2>2, Zenon
    <3>2. Cache(n)' = {} /\ Pins(n)' = {}
      BY <1>2, <1>3, <3>1 DEF Cache, Pins, Caches, Iterates, IsRead
    <3>3. Own(n)' = 1
      BY <1>1, <1>2, <1>3, <2>2, <3>1 DEF Own
    <3>4. Cardinality(Cache(n)') = 0 /\ Cardinality(Pins(n)') = 0
      BY <3>2, FS_EmptySet, Zenon
    <3> QED
      BY <3>1, <3>3, <3>4
  <2>3. Len(svs') \in Nat /\ \A sv \in 1..Len(svs') : sv \in 1..Len(svs) \/ sv = Len(svs')
    BY <1>2
  <2> QED
    BY <2>1, <2>2, <2>3, Zenon DEF RefsCounted
<1>7. Swept'
  <2>1. ASSUME NEW t \in Readers, reader[t].at = "cleanup"
        PROVE  reader[t].read.sv > 0 /\ svs'[reader[t].read.sv].refs = 0
    <3>1. reader[t].read.sv > 0 /\ svs[reader[t].read.sv].refs = 0
      BY <2>1, Zenon DEF Inv, Swept
    <3>2. reader[t].read.sv \in 1..Len(svs)
      BY <1>2, <1>3, <3>1 DEF IsRead
    <3> QED
      BY <1>2, <3>1, <3>2, Zenon
  <2>2. \A sv \in 1..Len(svs') : svs'[sv].refs = 0 => sv \in 1..Len(svs)
    BY <1>2
  <2> QED
    BY <1>2, <2>1, <2>2, Zenon DEF Inv, Swept
<1> QED
  BY <1>4, <1>5, <1>6, <1>7, Zenon DEF Inv

(* Scrape takes the reference out of a cache and counts it.                *)
LEMMA ScrapeInv ==
    ASSUME Inv, NEW t \in Readers, Scrape(t)
    PROVE  Inv'
<1> DEFINE more == IF local_sv[t] > 0 THEN 1 ELSE 0
<1>1. /\ t \in install.todo
      /\ UNCHANGED <<svs, super_version, iterators, reader>>
      /\ local_sv' = [local_sv EXCEPT ![t] = 0]
  BY Zenon DEF Scrape, kSVObsolete
<1>2. /\ install.old \in 0..Len(svs) \ {super_version} /\ Len(svs) \in Nat
      /\ install.scraped \in Nat /\ install.todo \subseteq Readers
      /\ install.old = 0 => install.todo = {}
      /\ DOMAIN install = {"old", "todo", "scraped", "writer"}
      /\ local_sv \in [Readers -> -1..Len(svs)] /\ FreshAt(t)
      /\ super_version \in 1..Len(svs)
  BY ThreadIs, Zenon DEF Inv, Shape
<1>3. /\ DOMAIN install' = {"old", "todo", "scraped", "writer"}
      /\ install'.old = install.old /\ install'.todo = install.todo \ {t}
      /\ install'.scraped = install.scraped + more
  BY <1>2 DEF Scrape
<1>4. /\ local_sv'[t] = 0 /\ local_sv' \in [Readers -> -1..Len(svs)]
      /\ \A u \in Readers \ {t} : local_sv'[u] = local_sv[u]
  BY <1>1, <1>2
<1>5. more \in {0, 1} /\ (more = 1 <=> local_sv[t] > 0)
  OBVIOUS
<1> HIDE DEF more
<1>6. Shape'
  BY <1>1, <1>2, <1>3, <1>4, <1>5 DEF Inv, Shape, IsRead
<1>7. Fresh'
  <2>1. \A u \in Readers \ {t} : Cacheable(u)' = Cacheable(u)
    BY <1>1, <1>3, Zenon DEF Cacheable, MutexFree
  <2>2. \A u \in Readers \ {t} : FreshAt(u)'
    BY <1>1, <1>4, <2>1, Zenon DEF Inv, Fresh, FreshAt
  <2>3. FreshAt(t)'
    <3>1. /\ ~(local_sv'[t] > 0) /\ local_sv'[t] # kSVInUse
          /\ local_sv'[t] \in {kSVInUse, kSVObsolete}
      BY <1>4 DEF kSVInUse, kSVObsolete
    <3> QED
      BY <1>1, <1>2, <3>1, Zenon DEF FreshAt
  <2> QED
    BY <2>2, <2>3, Zenon DEF Fresh
<1>8. RefsCounted'
  <2>1. ASSUME NEW sv \in 1..Len(svs)
        PROVE  svs[sv].refs = Cardinality(Cache(sv)') + Cardinality(Pins(sv)') + Own(sv)'
    <3> DEFINE e == IF local_sv[t] = sv THEN 1 ELSE 0
    <3>1. Pins(sv)' = Pins(sv) /\ Cache(sv)' \ {t} = Cache(sv) \ {t}
      BY <1>1, <1>4, Zenon DEF Pins, Iterates, Cache, Caches
    <3>2. IsFiniteSet(Cache(sv)) /\ IsFiniteSet(Cache(sv)')
          /\ Cardinality(Cache(sv)) \in Nat /\ Cardinality(Pins(sv)) \in Nat
      <4>1. Cache(sv)' \in SUBSET Readers
        BY Zenon DEF Cache
      <4> QED
        BY <4>1, Finite, FS_Subset, ReadersAssumption, Zenon
    <3>3. Cardinality(Cache(sv)') = Cardinality(Cache(sv)) + (IF t \in Cache(sv)' THEN 1 ELSE 0)
                                           - (IF t \in Cache(sv) THEN 1 ELSE 0)
      BY <3>1, <3>2, CountOne, Zenon
    <3>4. /\ local_sv[t] = sv => t \in Cache(sv) /\ t \notin Cache(sv)'
          /\ local_sv[t] # sv => (t \in Cache(sv)' <=> t \in Cache(sv))
      BY <1>1, <1>2, <1>4 DEF Cache, Caches, FreshAt, kSVInUse, kSVObsolete
    <3>5. Cardinality(Cache(sv)') = Cardinality(Cache(sv)) - e
      BY <3>2, <3>3, <3>4
    <3>6. local_sv[t] > 0 => local_sv[t] = install.old
      <4>1. Cacheable(t) = {install.old}
        BY <1>1, <1>2, Zenon DEF Cacheable, MutexFree
      <4> QED
        BY <1>2, <4>1, Zenon DEF FreshAt
    <3>7. Own(sv) \in Int /\ Own(sv)' = Own(sv) + e
      BY <1>1, <1>2, <1>3, <1>5, <3>6 DEF Own
    <3>8. svs[sv].refs = Cardinality(Cache(sv)) + Cardinality(Pins(sv)) + Own(sv)
      BY Zenon DEF Inv, RefsCounted
    <3> QED
      BY <3>1, <3>2, <3>5, <3>7, <3>8
  <2> QED
    BY <1>1, <2>1, Zenon DEF RefsCounted
<1>9. Swept'
  BY <1>1, Zenon DEF Inv, Swept
<1> QED
  BY <1>6, <1>7, <1>8, <1>9, Zenon DEF Inv

(* What the end of an installation takes away.                             *)
LEMMA TakeAway ==
    ASSUME NEW c \in Nat, NEW p \in Nat, NEW o \in Int, NEW s \in Nat
    PROVE  (c + p + o) - s - 1 = c + p + (o - 1 - s)
OBVIOUS

(* At the end of an installation the scraped references and the column     *)
(* family's are dropped.                                                   *)
LEMMA InstallDoneInv ==
    ASSUME Inv, InstallDone
    PROVE  Inv'
<1> DEFINE old == install.old
           n == svs[old].refs - install.scraped - 1
<1>1. /\ old # 0 /\ install.todo = {} /\ install' = NoInstall
      /\ UNCHANGED <<super_version, local_sv, iterators, reader>>
      /\ n = 0 => svs' = [svs EXCEPT ![old] = Freed]
      /\ n # 0 => SetRefs(old, n)
  BY Zenon DEF InstallDone, MutexFree, SetRefs
<1>2. /\ old \in 1..Len(svs) /\ old # super_version /\ install.scraped \in Nat
      /\ Len(svs) \in Nat /\ super_version \in 1..Len(svs)
      /\ \A sv \in 1..Len(svs) : svs[sv].refs \in Int
      /\ \A t \in Readers : IsRead(reader[t].read)
  <2>1. IsList(svs)
    BY Zenon DEF Inv, Shape
  <2>2. Len(svs) \in Nat
    BY <2>1, ListAppend, Zenon
  <2> QED
    BY <1>1, <2>2 DEF Inv, Shape
<1>3. /\ DOMAIN install' = {"old", "todo", "scraped", "writer"}
      /\ install'.old = 0 /\ install'.todo = {} /\ install'.scraped = 0
  BY <1>1, Zenon DEF NoInstall
<1>4. n = svs[old].refs - install.scraped - 1 /\ n \in Int /\ Shape
  BY <1>2 DEF Inv
<1> HIDE DEF n
<1>5. /\ IsList(svs') /\ Len(svs') = Len(svs)
      /\ \A sv \in 1..Len(svs) :
            /\ DOMAIN svs'[sv] = SVFields
            /\ svs'[sv].refs = IF sv = old THEN n ELSE svs[sv].refs
            /\ sv # old => svs'[sv] = svs[sv]
      /\ n = 0 => svs'[old] = Freed
  <2>1. CASE n = 0
    BY <1>1, <1>2, <1>4, <2>1, FreeEffect, Zenon
  <2>2. CASE n # 0
    BY <1>1, <1>2, <1>4, <2>2, RefsEffect
  <2> QED
    BY <2>1, <2>2, Zenon
<1>6. Shape'
  <2>1. \A sv \in 1..Len(svs') : DOMAIN svs'[sv] = SVFields /\ svs'[sv].refs \in Int
    BY <1>2, <1>4, <1>5, Zenon
  <2> QED
    BY <1>1, <1>2, <1>3, <1>4, <1>5, <2>1 DEF Shape, IsRead
<1>7. Fresh'
  <2>1. \A t \in Readers : FreshAt(t) /\ Cacheable(t) = {}
    BY <1>1, Zenon DEF Inv, Fresh, Cacheable, MutexFree
  <2> QED
    BY <1>1, <2>1, Zenon DEF Fresh, FreshAt
<1>8. RefsCounted'
  <2>1. ASSUME NEW sv \in 1..Len(svs)
        PROVE  svs'[sv].refs = Cardinality(Cache(sv)') + Cardinality(Pins(sv)') + Own(sv)'
    <3>1. Cache(sv)' = Cache(sv) /\ Pins(sv)' = Pins(sv)
      BY <1>1, Zenon DEF Cache, Pins, Caches, Iterates
    <3>2. /\ Own(sv) \in Int
          /\ Own(sv)' = IF sv = old THEN Own(sv) - 1 - install.scraped ELSE Own(sv)
      <4>1. Own(sv) = (IF sv = super_version THEN 1 ELSE 0)
                      + (IF sv = old THEN 1 + install.scraped ELSE 0)
        BY Zenon DEF Own
      <4>2. Own(sv)' = (IF sv = super_version THEN 1 ELSE 0) + 0
        BY <1>1, <1>2, <1>3 DEF Own
      <4> HIDE DEF old
      <4> QED
        BY <1>2, <4>1, <4>2
    <3>3. svs[sv].refs = Cardinality(Cache(sv)) + Cardinality(Pins(sv)) + Own(sv)
          /\ Cardinality(Cache(sv)) \in Nat /\ Cardinality(Pins(sv)) \in Nat
      BY Finite, Zenon DEF Inv, RefsCounted
    <3>4. CASE sv = old
      <4>1. Own(sv)' = Own(sv) - 1 - install.scraped /\ svs'[sv].refs = n
        BY <1>5, <3>2, <3>4, Zenon
      <4>2. n = svs[sv].refs - install.scraped - 1
        BY <1>4, <3>4, Zenon
      <4>3. install.scraped \in Nat
        BY <1>2, Zenon
      <4>4. /\ Cardinality(Cache(sv)') = Cardinality(Cache(sv))
            /\ Cardinality(Pins(sv)') = Cardinality(Pins(sv))
        BY <3>1, Zenon
      <4>5. Own(sv) \in Int
        BY <3>2, Zenon
      <4>6. (Cardinality(Cache(sv)) + Cardinality(Pins(sv)) + Own(sv)) - install.scraped - 1
               = Cardinality(Cache(sv)) + Cardinality(Pins(sv)) + (Own(sv) - 1 - install.scraped)
        BY <3>3, <4>3, <4>5, TakeAway, Zenon
      <4> QED
        BY <3>3, <4>1, <4>2, <4>4, <4>6, Zenon
    <3>5. CASE sv # old
      BY <1>5, <3>1, <3>2, <3>3, <3>5, Zenon
    <3> QED
      BY <3>4, <3>5, Zenon
  <2> QED
    BY <1>5, <2>1, Zenon DEF RefsCounted
<1>9. Swept'
  <2>1. svs[old].refs # 0 /\ n >= 0
    <3>1. Own(old) = 1 + install.scraped
      BY <1>2 DEF Own
    <3>2. svs[old].refs = Cardinality(Cache(old)) + Cardinality(Pins(old)) + Own(old)
          /\ Cardinality(Cache(old)) \in Nat /\ Cardinality(Pins(old)) \in Nat
      BY <1>2, Finite, Zenon DEF Inv, RefsCounted
    <3>3. install.scraped \in Nat /\ n = svs[old].refs - install.scraped - 1
      BY <1>2, <1>4, Zenon
    <3> QED
      BY <3>1, <3>2, <3>3
  <2>2. ASSUME NEW t \in Readers, reader[t].at = "cleanup"
        PROVE  reader[t].read.sv > 0 /\ svs'[reader[t].read.sv].refs = 0
    <3>1. reader[t].read.sv > 0 /\ svs[reader[t].read.sv].refs = 0
      BY <2>2, Zenon DEF Inv, Swept
    <3>2. reader[t].read.sv \in 1..Len(svs) /\ reader[t].read.sv # old
      BY <1>2, <2>1, <3>1 DEF IsRead
    <3> QED
      BY <1>5, <3>1, <3>2, Zenon
  <2> QED
    BY <1>1, <1>2, <1>5, <2>2 DEF Inv, Swept
<1> QED
  BY <1>6, <1>7, <1>8, <1>9, Zenon DEF Inv

(* Every step keeps the count of the references.                           *)
LEMMA StepInv ==
    ASSUME Inv, [Next]_vars
    PROVE  Inv'
<1> USE DEF vars, dataVars, jobVars, budget
<1>1. CASE Insert
  BY <1>1, QuietInv, Zenon DEF Insert
<1>2. CASE SetLastSequence
  BY <1>2, QuietInv, Zenon DEF SetLastSequence
<1>3. CASE SwitchMemtable
  BY <1>3, InstallInv, Zenon DEF SwitchMemtable
<1>4. CASE BeginFlush
  BY <1>4, QuietInv, Zenon DEF BeginFlush
<1>5. CASE PickMemTable
  BY <1>5, QuietInv, Zenon DEF PickMemTable
<1>6. CASE InstallFlush
  BY <1>6, InstallInv, Zenon DEF InstallFlush
<1>7. CASE BeginCompaction
  BY <1>7, QuietInv, Zenon DEF BeginCompaction
<1>8. CASE InstallCompaction
  BY <1>8, InstallInv, Zenon DEF InstallCompaction
<1>9. CASE InstallDone
  BY <1>9, InstallDoneInv, Zenon
<1>10. CASE GetSnapshot
  BY <1>10, QuietInv, Zenon DEF GetSnapshot
<1>11. CASE \E s \in snapshots : ReleaseSnapshot(s)
  BY <1>11, QuietInv, Zenon DEF ReleaseSnapshot
<1>12. CASE \E t \in Readers : Scrape(t)
  BY <1>12, ScrapeInv, Zenon
<1>13. CASE \E t \in Readers : Read(t)
  BY <1>13, SwapInv, RefInv, PinInv, ReturnCachedInv, ReturnStaleInv, GetImplInv,
     NewIteratorInv, CloseIteratorInv, CleanupInv, ThreadExitInv, Zenon DEF Read
<1>14. CASE UNCHANGED vars
  BY <1>14, QuietInv, Zenon
<1> QED
  BY <1>1, <1>2, <1>3, <1>4, <1>5, <1>6, <1>7, <1>8, <1>9, <1>10, <1>11, <1>12,
     <1>13, <1>14, Zenon DEF Next

(* The invariant gives what NoUseAfterFree says.                           *)
LEMMA InvUse ==
    ASSUME Inv
    PROVE  NoUseAfterFree
<1>1. /\ DOMAIN svs = 1..Len(svs) /\ Len(svs) \in Nat
      /\ super_version \in 1..Len(svs) /\ install.old \in 0..Len(svs)
  BY ListAppend DEF Inv, Shape, IsList
<1>2. ASSUME NEW sv \in 1..Len(svs), Users(sv) # {}
      PROVE  svs[sv].refs > 0
  <2>1. PICK t \in Readers : \/ reader[t].at \in Holding /\ reader[t].read.sv = sv
                             \/ iterators[t].sv = sv
                             \/ local_sv[t] = sv
    BY <1>2, Zenon DEF Users
  <2>2. Caches(t, sv) \/ Iterates(t, sv)
    BY <2>1, Zenon DEF Caches, Iterates, Holding, Borrowing, Opening
  <2> QED
    BY <2>2, HasRefs, Zenon
<1>3. ASSUME NEW sv \in 1..Len(svs), InstalledOrOld(sv)
      PROVE  svs[sv].refs > 0
  <2>1. Own(sv) \in Nat /\ Own(sv) > 0
    BY <1>3 DEF Own, InstalledOrOld, Inv, Shape
  <2>2. svs[sv].refs = Cardinality(Cache(sv)) + Cardinality(Pins(sv)) + Own(sv)
    BY Zenon DEF Inv, RefsCounted
  <2>3. Cardinality(Cache(sv)) \in Nat /\ Cardinality(Pins(sv)) \in Nat
    BY Finite, Zenon
  <2> QED
    BY <2>1, <2>2, <2>3
<1>4. ASSUME NEW t \in Readers, local_sv[t] > 0
      PROVE  svs[local_sv[t]].refs > 1
  <2>1. local_sv[t] \in {super_version, install.old} /\ local_sv[t] \in 1..Len(svs)
    <3>1. local_sv[t] \in Cacheable(t) /\ local_sv[t] \in -1..Len(svs)
      BY <1>4, ThreadIs, Zenon DEF FreshAt
    <3> QED
      BY <1>1, <1>4, <3>1 DEF Cacheable
  <2>2. Caches(t, local_sv[t])
    BY Zenon DEF Caches
  <2>3. /\ svs[local_sv[t]].refs >= One(Caches(t, local_sv[t])) + One(Iterates(t, local_sv[t]))
                                    + Own(local_sv[t])
        /\ Own(local_sv[t]) \in Nat /\ Own(local_sv[t]) > 0
        /\ svs[local_sv[t]].refs \in Nat
    BY <2>1, Referenced, Zenon
  <2>4. One(Caches(t, local_sv[t])) = 1 /\ One(Iterates(t, local_sv[t])) \in {0, 1}
    BY <2>2, Zenon DEF One
  <2> QED
    BY <2>3, <2>4
<1> QED
  BY <1>1, <1>2, <1>3, <1>4, Zenon DEF NoUseAfterFree

(* The invariant gives what NoLeak says.                                   *)
LEMMA InvLeak ==
    ASSUME Inv
    PROVE  NoLeak
<1>1. DOMAIN svs = 1..Len(svs)
  BY ListAppend DEF Inv, Shape, IsList
<1>2. ASSUME NEW sv \in 1..Len(svs), svs[sv].refs = 0
      PROVE  \/ svs[sv] = Freed
             \/ \E t \in Readers : reader[t].at = "cleanup" /\ reader[t].read.sv = sv
  BY <1>2, Zenon DEF Inv, Swept
<1>3. ASSUME NEW sv \in 1..Len(svs), svs[sv].refs # 0, ~InstalledOrOld(sv)
      PROVE  Users(sv) # {}
  <2>1. svs[sv].refs = Cardinality(Cache(sv)) + Cardinality(Pins(sv)) + Own(sv)
    BY DEF Inv, RefsCounted
  <2>2. Own(sv) = 0
    BY <1>3 DEF Own, InstalledOrOld
  <2>3. Cache(sv) # {} \/ Pins(sv) # {}
    <3>1. Cache(sv) = {} => Cardinality(Cache(sv)) = 0
      BY FS_EmptySet, Zenon
    <3>2. Pins(sv) = {} => Cardinality(Pins(sv)) = 0
      BY FS_EmptySet, Zenon
    <3> QED
      BY <1>3, <2>1, <2>2, <3>1, <3>2
  <2>4. Cache(sv) \cup Pins(sv) \subseteq Users(sv)
    BY Zenon DEF Cache, Pins, Users, Caches, Iterates, Holding, Borrowing, Opening
  <2> QED
    BY <2>3, <2>4, Zenon
<1> QED
  BY <1>1, <1>2, <1>3, Zenon DEF NoLeak

(* Inv is an invariant.                                                    *)
LEMMA Invariance == Spec => []Inv
<1> QED
  BY InitInv, StepInv, PTL DEF Spec

(* Whatever threads, installations and iterators there are, a SuperVersion *)
(* is never freed while a read, an iterator, a cache or the column family  *)
(* may use it, and giving up a cached one never drops the last reference.  *)
THEOREM FreesNoneInUse == Spec => []NoUseAfterFree
<1> QED
  BY Invariance, InvUse, PTL

(* A SuperVersion nobody refers to has been freed, or the thread that      *)
(* dropped the last reference is about to free it.                         *)
THEOREM LeaksNone == Spec => []NoLeak
<1> QED
  BY Invariance, InvLeak, PTL
=============================================================================
