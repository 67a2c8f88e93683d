---------------------------- MODULE DiaryProofs -----------------------------
(***************************************************************************)
(* Proofs about the shared diary, for any customers, roster, calendar,     *)
(* slot sizes and number of restarts.                                      *)
(***************************************************************************)
EXTENDS Diary, WellFoundedInduction, TLAPS

\* What is a function of the conversations.
Shape ==
    /\ held = [c \in Conv |-> held[c]]
    /\ offered = [c \in Conv |-> offered[c]]
    /\ call = [c \in Conv |-> call[c]]

\* The numbers of the rows are those up to the highest, and a create holds one
\* of them or the next.
Numbering ==
    \E k \in Nat :
        /\ DOMAIN rows = 1 .. k
        /\ \A c \in Conv : call[c] # NoCall => call[c].number \in 1 .. k + 1

\* A conversation writes rows of its own.
Owners ==
    \A c \in Conv :
        /\ \A n \in DOMAIN held[c] : held[c][n].by = c
        /\ call[c] # NoCall => call[c].row.by = c

\* The number a create holds was nobody's when it was taken, and no row of its
\* own has it yet.
Fresh ==
    \A c \in Conv : call[c] # NoCall =>
        /\ \A p \in call[c].saw : p[1] # call[c].number
        /\ call[c].number \in DOMAIN rows => rows[call[c].number].by # c
        /\ \A d \in Conv : <<call[c].number, c>> \notin offered[d].saw

\* What a search looked at is still in the table.
Looked == \A d \in Conv : \A p \in offered[d].saw : p[1] \in DOMAIN rows

IInv ==
    /\ Shape /\ Numbering /\ Owners /\ Fresh /\ Looked
    /\ MemoryIsOnRecord /\ SoldTwiceOnlyUnseen

-----------------------------------------------------------------------------
(* What the operators give.                                                *)

\* The next number is one more than the number of rows.
LEMMA NextIdIsNext ==
    ASSUME NEW k \in Nat, DOMAIN rows = 1 .. k
    PROVE  NextId = k + 1
<1> DEFINE S == {0} \cup 1 .. k
<1>1. k \in S /\ \A y \in S : k >= y
    OBVIOUS
<1>2. \A x \in S : (\A y \in S : x >= y) => x = k
    BY <1>1
<1>3. Max(S) = k
    BY <1>1, <1>2 DEF Max
<1> QED BY <1>3 DEF NextId

\* A time that is offered overlaps nothing the search found in the diary.
LEMMA OffersAvoidTheBusy ==
    ASSUME NEW c, NEW candidates, NEW limit,
           NEW slot \in FindSlots(c, candidates, limit), NEW n \in Busy(began[c])
    PROVE  ~Overlap(rows[n].start, slot.start)
<1> DEFINE Taken(t) == \E m \in Busy(began[c]) : Overlap(rows[m].start, t)
           Available(t) == {tech \in candidates : ~TechnicianBusy(c, tech, t)}
           free == {t \in UNION {Startable(day, began[c]) : day \in Day} :
                       ~Taken(t) /\ Available(t) # {}}
           first == {t \in free : Cardinality({s \in free : s < t}) < limit}
<1>1. slot \in {[start |-> t, tech |-> Min(Available(t))] : t \in first}
    BY DEF FindSlots
<1> HIDE DEF first, Available
<1>2. PICK t \in first : slot.start = t
    BY <1>1
<1>3. ~Taken(t)
    BY DEF first
<1> QED BY <1>2, <1>3

-----------------------------------------------------------------------------
(* The invariant.                                                          *)

LEMMA InitIInv == Init => IInv
<1> SUFFICES ASSUME Init PROVE IInv
    OBVIOUS
<1> USE DEF Init, NoRows, NoOffer, NoCall
<1>1. Shape
    BY DEF Shape
<1>2. Numbering
    <2>1. DOMAIN rows = 1 .. 0
        OBVIOUS
    <2> QED BY <2>1 DEF Numbering
<1>3. Owners /\ Fresh /\ Looked
    BY DEF Owners, Fresh, Looked
<1>4. MemoryIsOnRecord /\ SoldTwiceOnlyUnseen
    BY DEF MemoryIsOnRecord, SoldTwiceOnlyUnseen
<1> QED BY <1>1, <1>2, <1>3, <1>4 DEF IInv

\* A conversation that changes a visit it holds: not a booking any more.
LEMMA ChangingAVisit ==
    ASSUME IInv, NEW c \in Conv, NEW n \in DOMAIN held[c], NEW row,
           Save(c, n, row), row.by = c, row.status # "booked", call[c] = NoCall,
           UNCHANGED <<offered, call>>
    PROVE  IInv'
<1> USE DEF IInv
<1>1. n \in DOMAIN rows
    BY DEF MemoryIsOnRecord
<1>2. /\ DOMAIN rows' = DOMAIN rows
      /\ rows'[n] = row
      /\ \A i \in DOMAIN rows : i # n => rows'[i] = rows[i]
    BY <1>1 DEF Save, Put
<1>3. /\ held' = [d \in Conv |-> held'[d]]
      /\ \A d \in Conv : d # c => held'[d] = held[d]
      /\ DOMAIN held'[c] = DOMAIN held[c]
      /\ held'[c][n] = row
      /\ \A i \in DOMAIN held[c] : i # n => held'[c][i] = held[c][i]
    BY DEF Shape, Save, Put
<1>4. Shape' /\ Numbering' /\ Owners'
    BY <1>2, <1>3 DEF Shape, Numbering, Owners
<1>5. Fresh' /\ Looked'
    BY <1>2 DEF Fresh, Looked
<1>6. MemoryIsOnRecord'
    BY <1>2, <1>3 DEF MemoryIsOnRecord, Owners
<1>7. SoldTwiceOnlyUnseen'
    BY <1>2 DEF SoldTwiceOnlyUnseen
<1> QED BY <1>4, <1>5, <1>6, <1>7

LEMMA StepIInv == IInv /\ [Next]_vars => IInv'
<1> SUFFICES ASSUME IInv, [Next]_vars PROVE IInv'
    OBVIOUS
<1> USE DEF IInv
<1>1. CASE UNCHANGED <<rows, held, offered, call>>
    BY <1>1 DEF Shape, Numbering, Owners, Fresh, Looked, MemoryIsOnRecord, SoldTwiceOnlyUnseen
<1>2. ASSUME NEW c \in Conv, Search(c) PROVE IInv'
    <2>1. PICK candidates \in Candidates :
            offered' = [offered EXCEPT ![c] =
                [slots |-> FindSlots(c, candidates, Limit), saw |-> Owned(Busy(began[c]))]]
        BY <1>2 DEF Search
    <2>2. /\ offered'[c].slots = FindSlots(c, candidates, Limit)
          /\ offered'[c].saw = Owned(Busy(began[c]))
          /\ \A d \in Conv : d # c => offered'[d] = offered[d]
          /\ offered' = [d \in Conv |-> offered'[d]]
        BY <2>1 DEF Shape
    <2>3. \A n, by : <<n, by>> \in Owned(Busy(began[c])) => n \in Busy(began[c]) /\ by = rows[n].by
        BY DEF Owned
    <2>4. \A n \in Busy(began[c]) : n \in DOMAIN rows
        BY DEF Busy
    <2>5. \A p \in Owned(Busy(began[c])) : p[1] \in DOMAIN rows
        BY <2>4 DEF Owned
    <2>6. UNCHANGED <<rows, held, call>>
        BY <1>2 DEF Search
    <2>7. Shape' /\ Numbering' /\ Owners' /\ MemoryIsOnRecord'
        BY <2>2, <2>6 DEF Shape, Numbering, Owners, MemoryIsOnRecord
    <2>8. Looked'
        BY <2>2, <2>5, <2>6 DEF Looked
    <2>9. Fresh'
        BY <2>2, <2>3, <2>4, <2>6 DEF Fresh
    <2>10. SoldTwiceOnlyUnseen'
        BY <2>2, <2>3, <2>6, OffersAvoidTheBusy DEF SoldTwiceOnlyUnseen
    <2> QED BY <2>7, <2>8, <2>9, <2>10
<1>3. ASSUME NEW c \in Conv, CreateAppointment(c) PROVE IInv'
    <2>1. PICK slot, tech :
            call' = [call EXCEPT ![c] =
                [number |-> NextId, saw |-> Owned(DOMAIN rows),
                 row |-> [by |-> c, start |-> slot.start, tech |-> tech, status |-> "booked"]]]
        BY <1>3 DEF CreateAppointment
    <2>2. /\ call'[c].number = NextId
          /\ call'[c].saw = Owned(DOMAIN rows)
          /\ call'[c].row.by = c
          /\ \A d \in Conv : d # c => call'[d] = call[d]
          /\ call' = [d \in Conv |-> call'[d]]
        BY <2>1 DEF Shape
    <2>3. UNCHANGED <<rows, held, offered>>
        BY <1>3 DEF CreateAppointment
    <2>4. PICK k \in Nat :
            /\ DOMAIN rows = 1 .. k
            /\ \A d \in Conv : call[d] # NoCall => call[d].number \in 1 .. k + 1
        BY DEF Numbering
    <2>5. NextId = k + 1
        BY <2>4, NextIdIsNext
    <2>6. NextId \notin DOMAIN rows
        BY <2>4, <2>5
    <2>7. \A p \in Owned(DOMAIN rows) : p[1] # NextId
        BY <2>6 DEF Owned
    <2>8. Shape' /\ Owners' /\ MemoryIsOnRecord'
        BY <2>2, <2>3 DEF Shape, Owners, MemoryIsOnRecord
    <2>9. Numbering'
        BY <2>2, <2>3, <2>4, <2>5 DEF Numbering
    <2>10. Looked' /\ SoldTwiceOnlyUnseen'
        BY <2>3 DEF Looked, SoldTwiceOnlyUnseen
    <2>11. Fresh'
        BY <2>2, <2>3, <2>6, <2>7 DEF Fresh, Looked
    <2> QED BY <2>8, <2>9, <2>10, <2>11
<1>4. ASSUME NEW c \in Conv, Written(c) PROVE IInv'
    <2> DEFINE n == call[c].number
               row == call[c].row
    <2>1. /\ Save(c, n, row) /\ call[c] # NoCall
          /\ call' = [call EXCEPT ![c] = NoCall] /\ UNCHANGED offered
        BY <1>4 DEF Written
    <2>2. /\ DOMAIN rows' = DOMAIN rows \cup {n}
          /\ rows'[n] = row
          /\ \A i \in DOMAIN rows : i # n => rows'[i] = rows[i]
        BY <2>1 DEF Shape, Save, Put
    <2>3. /\ held' = [d \in Conv |-> held'[d]]
          /\ \A d \in Conv : d # c => held'[d] = held[d]
          /\ DOMAIN held'[c] = DOMAIN held[c] \cup {n}
          /\ held'[c][n] = row
          /\ \A i \in DOMAIN held[c] : i # n => held'[c][i] = held[c][i]
        BY <2>1 DEF Shape, Save, Put
    <2>4. /\ call'[c] = NoCall
          /\ \A d \in Conv : d # c => call'[d] = call[d]
          /\ call' = [d \in Conv |-> call'[d]]
        BY <2>1 DEF Shape
    <2>5. row.by = c
        BY <2>1 DEF Owners
    <2>6. Shape' /\ Owners'
        BY <2>1, <2>3, <2>4, <2>5 DEF Shape, Owners
    <2>7. Numbering'
        <3>1. PICK k \in Nat :
                /\ DOMAIN rows = 1 .. k
                /\ \A d \in Conv : call[d] # NoCall => call[d].number \in 1 .. k + 1
            BY DEF Numbering
        <3>2. n \in 1 .. k + 1
            BY <2>1, <3>1
        <3>3. DOMAIN rows' = 1 .. k \/ DOMAIN rows' = 1 .. k + 1
            BY <2>2, <3>1, <3>2
        <3>4. \A d \in Conv : call'[d] # NoCall => call'[d].number \in 1 .. k + 1
            BY <2>4, <3>1
        <3>5. CASE DOMAIN rows' = 1 .. k
            BY <3>4, <3>5 DEF Numbering
        <3>6. CASE DOMAIN rows' = 1 .. k + 1
            <4>1. \A d \in Conv : call'[d] # NoCall => call'[d].number \in 1 .. (k + 1) + 1
                BY <3>4
            <4> QED BY <3>6, <4>1, k + 1 \in Nat DEF Numbering
        <3> QED BY <3>3, <3>5, <3>6
    <2>8. Looked'
        BY <2>1, <2>2 DEF Looked
    <2>9. Fresh'
        BY <2>1, <2>2, <2>4, <2>5 DEF Fresh
    <2>10. MemoryIsOnRecord'
        BY <2>2, <2>3, <2>5 DEF MemoryIsOnRecord, Owners
    <2>11. SoldTwiceOnlyUnseen'
        BY <2>1, <2>2, <2>5 DEF SoldTwiceOnlyUnseen, Fresh
    <2> QED BY <2>6, <2>7, <2>8, <2>9, <2>10, <2>11
<1>5. ASSUME NEW c \in Conv, Reschedule(c) PROVE IInv'
    <2>1. PICK n \in DOMAIN held[c], slot \in offered[c].slots :
            Save(c, n, [held[c][n] EXCEPT !.start = slot.start, !.status = "rescheduled"])
        BY <1>5 DEF Reschedule
    <2> DEFINE row == [held[c][n] EXCEPT !.start = slot.start, !.status = "rescheduled"]
    <2>2. row.by = c /\ row.status # "booked"
        BY DEF Owners
    <2>3. call[c] = NoCall /\ UNCHANGED <<offered, call>>
        BY <1>5 DEF Reschedule, Ready
    <2> QED BY <2>1, <2>2, <2>3, ChangingAVisit
<1>6. ASSUME NEW c \in Conv, Cancel(c) PROVE IInv'
    <2>1. PICK n \in DOMAIN held[c] : Save(c, n, [held[c][n] EXCEPT !.status = "cancelled"])
        BY <1>6 DEF Cancel
    <2> DEFINE row == [held[c][n] EXCEPT !.status = "cancelled"]
    <2>2. row.by = c /\ row.status # "booked"
        BY DEF Owners
    <2>3. call[c] = NoCall /\ UNCHANGED <<offered, call>>
        BY <1>6 DEF Cancel, Ready
    <2> QED BY <2>1, <2>2, <2>3, ChangingAVisit
<1>7. CASE Restart
    <2>1. /\ UNCHANGED rows
          /\ \A c \in Conv : DOMAIN held'[c] = {} /\ offered'[c] = NoOffer /\ call'[c] = NoCall
        BY <1>7 DEF Restart, NoRows
    <2>2. Shape'
        BY <1>7 DEF Restart, Shape
    <2>3. Numbering' /\ Owners' /\ Fresh'
        BY <2>1 DEF Numbering, Owners, Fresh
    <2>4. Looked' /\ MemoryIsOnRecord' /\ SoldTwiceOnlyUnseen'
        BY <2>1 DEF NoOffer, Looked, MemoryIsOnRecord, SoldTwiceOnlyUnseen
    <2> QED BY <2>2, <2>3, <2>4
<1>8. CASE Tick \/ (\E c \in Conv : Open(c)) \/ UNCHANGED vars
    BY <1>1, <1>8 DEF Tick, Open, vars
<1> QED BY <1>2, <1>3, <1>4, <1>5, <1>6, <1>7, <1>8 DEF Next

LEMMA Invariance == Spec => []IInv
<1> QED BY InitIInv, StepIInv, PTL DEF Spec

-----------------------------------------------------------------------------
(* The types.                                                              *)

\* A set of numbers that is not empty has a smallest one, and Min is it.
LEMMA MinIsMember ==
    ASSUME NEW S \in SUBSET Nat, S # {}
    PROVE  Min(S) \in S
<1> DEFINE R == OpToRel(<, Nat)
<1>1. PICK x \in S : \A y \in S : <<y, x>> \notin R
    <2> HIDE DEF R
    <2>1. IsWellFoundedOn(R, Nat)
        BY NatLessThanWellFounded DEF R
    <2> QED BY <2>1, WFMin
<1>2. \A a, b \in Nat : a < b => <<a, b>> \in R
    BY DEF OpToRel
<1> HIDE DEF R
<1>3. \A y \in S : x <= y
    <2> TAKE y \in S
    <2>1. ~(y < x)
        BY <1>1, <1>2
    <2> QED BY <2>1
<1> QED BY <1>3 DEF Min

\* The search offers times of the calendar and technicians of the roster.
LEMMA OffersAreSlots ==
    ASSUME NEW c, NEW candidates \in Candidates, NEW limit
    PROVE  FindSlots(c, candidates, limit) \subseteq [start: Time, tech: Tech]
<1> DEFINE Taken(t) == \E m \in Busy(began[c]) : Overlap(rows[m].start, t)
           Available(t) == {tech \in candidates : ~TechnicianBusy(c, tech, t)}
           free == {t \in UNION {Startable(day, began[c]) : day \in Day} :
                       ~Taken(t) /\ Available(t) # {}}
           first == {t \in free : Cardinality({s \in free : s < t}) < limit}
<1>1. FindSlots(c, candidates, limit) = {[start |-> t, tech |-> Min(Available(t))] : t \in first}
    BY DEF FindSlots
<1>2. \A t \in first : t \in Time /\ Available(t) # {}
    BY DEF Startable
<1>3. \A t : Available(t) \subseteq Tech
    BY DEF Candidates
<1> HIDE DEF Available, first
<1>4. \A t \in first : Min(Available(t)) \in Tech
    BY <1>2, <1>3, MinIsMember, DiaryAssumption
<1> QED BY <1>1, <1>2, <1>4

\* Whom a create without a technician sends is on the roster, or nobody.
LEMMA FreeFirstIsTech ==
    ASSUME NEW c, NEW candidates \in Candidates
    PROVE  FreeFirst(c, candidates) \subseteq Tech \cup {NoTech}
<1>1. FindSlots(c, candidates, 1) \subseteq [start: Time, tech: Tech]
    BY OffersAreSlots
<1> QED BY <1>1 DEF FreeFirst

\* What was looked at is rows by number and owner.
LEMMA OwnedIsSeen ==
    ASSUME TypeOK, NEW which \in SUBSET DOMAIN rows
    PROVE  Owned(which) \in Seen
<1>1. \A n \in which : n \in Number /\ rows[n].by \in Conv
    BY DEF TypeOK, Visit
<1> QED BY <1>1 DEF Owned, Seen

\* A visit that is saved under a number of the table leaves visits there.
LEMMA SavedIsTyped ==
    ASSUME IInv, TypeOK, NEW c \in Conv, NEW n \in Number, NEW row \in Visit, Save(c, n, row)
    PROVE  /\ DOMAIN rows' \subseteq Number /\ \A i \in DOMAIN rows' : rows'[i] \in Visit
           /\ \A d \in Conv :
                  /\ DOMAIN held'[d] \subseteq Number
                  /\ \A i \in DOMAIN held'[d] : held'[d][i] \in Visit
<1>1. ASSUME NEW f, DOMAIN f \subseteq Number, \A i \in DOMAIN f : f[i] \in Visit
      PROVE  /\ DOMAIN Put(f, n, row) \subseteq Number
             /\ \A i \in DOMAIN Put(f, n, row) : Put(f, n, row)[i] \in Visit
    BY <1>1 DEF Put
<1>2. rows' = Put(rows, n, row)
    BY DEF Save
<1>3. held'[c] = Put(held[c], n, row) /\ \A d \in Conv : d # c => held'[d] = held[d]
    BY DEF Save, IInv, Shape
<1>4. DOMAIN rows \subseteq Number /\ \A i \in DOMAIN rows : rows[i] \in Visit
    BY DEF TypeOK
<1>5. \A d \in Conv : DOMAIN held[d] \subseteq Number /\ \A i \in DOMAIN held[d] : held[d][i] \in Visit
    BY DEF TypeOK
<1>6. DOMAIN rows' \subseteq Number /\ \A i \in DOMAIN rows' : rows'[i] \in Visit
    BY <1>1, <1>2, <1>4
<1>7. DOMAIN held'[c] \subseteq Number /\ \A i \in DOMAIN held'[c] : held'[c][i] \in Visit
    BY <1>1, <1>3, <1>5
<1> QED BY <1>3, <1>5, <1>6, <1>7

LEMMA InitTypes == Init => TypeOK
<1> SUFFICES ASSUME Init PROVE TypeOK
    OBVIOUS
<1>1. NoOffer \in [slots: SUBSET [start: Time, tech: Tech], saw: Seen]
    BY DEF NoOffer, Seen
<1>2. 0 \in 0 .. MaxClock /\ 0 \in 0 .. MaxRestarts
    BY DiaryAssumption
<1> QED BY <1>1, <1>2 DEF Init, NoRows, TypeOK

LEMMA StepTypes == IInv /\ TypeOK /\ [Next]_vars => TypeOK'
<1> SUFFICES ASSUME IInv, TypeOK, [Next]_vars PROVE TypeOK'
    OBVIOUS
<1> DEFINE Slots == SUBSET [start: Time, tech: Tech]
<1>1. ASSUME NEW c \in Conv, Open(c) PROVE TypeOK'
    BY <1>1 DEF Open, TypeOK
<1>2. ASSUME NEW c \in Conv, Search(c) PROVE TypeOK'
    <2>1. PICK candidates \in Candidates :
            offered' = [offered EXCEPT ![c] =
                [slots |-> FindSlots(c, candidates, Limit), saw |-> Owned(Busy(began[c]))]]
        BY <1>2 DEF Search
    <2>2. FindSlots(c, candidates, Limit) \in Slots
        BY OffersAreSlots
    <2>3. Owned(Busy(began[c])) \in Seen
        BY OwnedIsSeen DEF Busy
    <2>4. offered' \in [Conv -> [slots: Slots, saw: Seen]]
        BY <2>1, <2>2, <2>3 DEF TypeOK
    <2> QED BY <1>2, <2>4 DEF Search, TypeOK
<1>3. ASSUME NEW c \in Conv, CreateAppointment(c) PROVE TypeOK'
    <2>1. PICK slot \in offered[c].slots :
            \E tech \in {slot.tech} \cup UNION {FreeFirst(c, some) : some \in Candidates} :
                call' = [call EXCEPT ![c] =
                    [number |-> NextId, saw |-> Owned(DOMAIN rows),
                     row |-> [by |-> c, start |-> slot.start, tech |-> tech, status |-> "booked"]]]
        BY <1>3 DEF CreateAppointment
    <2>2. PICK tech \in {slot.tech} \cup UNION {FreeFirst(c, some) : some \in Candidates} :
            call' = [call EXCEPT ![c] =
                [number |-> NextId, saw |-> Owned(DOMAIN rows),
                 row |-> [by |-> c, start |-> slot.start, tech |-> tech, status |-> "booked"]]]
        BY <2>1
    <2>3. slot \in [start: Time, tech: Tech]
        BY DEF TypeOK
    <2>4. tech \in Tech \cup {NoTech}
        BY <2>3, FreeFirstIsTech
    <2>5. NextId \in Number
        <3>1. PICK k \in Nat : DOMAIN rows = 1 .. k
            BY DEF IInv, Numbering
        <3>2. NextId = k + 1 /\ NextId <= MaxNumber
            BY <1>3, <3>1, NextIdIsNext DEF CreateAppointment
        <3> QED BY <3>2, DiaryAssumption DEF Number
    <2>6. Owned(DOMAIN rows) \in Seen
        BY OwnedIsSeen
    <2>7. [by |-> c, start |-> slot.start, tech |-> tech, status |-> "booked"] \in Visit
        BY <2>3, <2>4 DEF Visit
    <2>8. call' \in [Conv -> {NoCall} \cup [number: Number, saw: Seen, row: Visit]]
        BY <2>2, <2>5, <2>6, <2>7 DEF TypeOK
    <2> QED BY <1>3, <2>8 DEF CreateAppointment, TypeOK
<1>4. ASSUME NEW c \in Conv, Written(c) PROVE TypeOK'
    <2>1. call[c] \in [number: Number, saw: Seen, row: Visit] /\ Save(c, call[c].number, call[c].row)
        BY <1>4 DEF Written, TypeOK
    <2>2. call[c].number \in Number /\ call[c].row \in Visit
        BY <2>1
    <2>3. call' \in [Conv -> {NoCall} \cup [number: Number, saw: Seen, row: Visit]]
        BY <1>4 DEF Written, TypeOK
    <2> QED BY <1>4, <2>1, <2>2, <2>3, SavedIsTyped DEF Written, TypeOK
<1>5. ASSUME NEW c \in Conv, Reschedule(c) PROVE TypeOK'
    <2>1. PICK n \in DOMAIN held[c], slot \in offered[c].slots :
            Save(c, n, [held[c][n] EXCEPT !.start = slot.start, !.status = "rescheduled"])
        BY <1>5 DEF Reschedule
    <2>2. n \in Number /\ held[c][n] \in Visit /\ slot.start \in Time
        BY DEF TypeOK
    <2>3. [held[c][n] EXCEPT !.start = slot.start, !.status = "rescheduled"] \in Visit
        BY <2>2 DEF Visit
    <2> QED BY <1>5, <2>1, <2>2, <2>3, SavedIsTyped DEF Reschedule, TypeOK
<1>6. ASSUME NEW c \in Conv, Cancel(c) PROVE TypeOK'
    <2>1. PICK n \in DOMAIN held[c] : Save(c, n, [held[c][n] EXCEPT !.status = "cancelled"])
        BY <1>6 DEF Cancel
    <2>2. n \in Number /\ held[c][n] \in Visit
        BY DEF TypeOK
    <2>3. [held[c][n] EXCEPT !.status = "cancelled"] \in Visit
        BY <2>2 DEF Visit
    <2> QED BY <1>6, <2>1, <2>2, <2>3, SavedIsTyped DEF Cancel, TypeOK
<1>7. CASE Tick
    BY <1>7, DiaryAssumption DEF Tick, TypeOK
<1>8. CASE Restart
    <2>1. NoOffer \in [slots: Slots, saw: Seen]
        BY DEF NoOffer, Seen
    <2>2. restarts' \in 0 .. MaxRestarts
        BY <1>8, DiaryAssumption DEF Restart, TypeOK
    <2> QED BY <1>8, <2>1, <2>2 DEF Restart, NoRows, TypeOK
<1>9. CASE UNCHANGED vars
    BY <1>9 DEF vars, TypeOK
<1> QED BY <1>1, <1>2, <1>3, <1>4, <1>5, <1>6, <1>7, <1>8, <1>9 DEF Next

-----------------------------------------------------------------------------
(* The theorems.                                                           *)

\* The types: among them that every time that is offered or booked is one of the
\* calendar, and that who is sent is on the roster or nobody (world.py, find_slots;
\* ops_tools.py:130).
THEOREM TypeCorrect == Spec => []TypeOK
<1> QED BY InitTypes, StepTypes, Invariance, PTL DEF Spec

\* What a conversation was told of a visit is what the database holds, unless
\* its number clashed.
THEOREM MemoryStaysOnRecord == Spec => []MemoryIsOnRecord
<1>1. IInv => MemoryIsOnRecord
    BY DEF IInv
<1> QED BY <1>1, Invariance, PTL

\* A number is given out twice only to creates in flight at once, however often
\* the server restarts.
THEOREM NumbersAreFresh == Spec => []NumbersClashOnlyInFlight
<1>1. IInv => NumbersClashOnlyInFlight
    BY DEF IInv, Fresh, NumbersClashOnlyInFlight
<1> QED BY <1>1, Invariance, PTL

\* No search offers a time that a booked visit it found takes, and no such
\* visit comes into being afterwards.
THEOREM OffersStayApart == Spec => []SoldTwiceOnlyUnseen
<1>1. IInv => SoldTwiceOnlyUnseen
    BY DEF IInv
<1> QED BY <1>1, Invariance, PTL
=============================================================================
