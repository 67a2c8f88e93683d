------------------------------- MODULE Diary --------------------------------
(***************************************************************************)
(* What several conversations share: the appointments in the database      *)
(* (src/plumbing/store.py), written through by the World of each           *)
(* conversation (src/plumbing/world.py), and the search for free times.    *)
(* The worlds work at the same time, one tool call at a time each.  They   *)
(* keep what they wrote in memory and look only there when they change it; *)
(* a restart drops the memory.  Taking the next number and writing the row *)
(* under it are two transactions.                                          *)
(*                                                                         *)
(* The real calendar is not live.  A conversation has its ticket.  Which   *)
(* of the technicians a search may choose from (area, skill, duty, load)   *)
(* is any set of them.  Agents book and move to times they were offered.   *)
(***************************************************************************)
EXTENDS Integers, FiniteSets, FiniteSetsExt

CONSTANTS
    Conv,                  \* customers, each with a conversation
    Tech,                  \* technicians on duty, numbered in the roster's order
    DayLength, Days,       \* times are numbers; every day has DayLength of them
    Opens, Closes,         \* working_hours, within the day
    ClosedDays,            \* Sundays and holidays
    Granularity, Duration, \* slot_granularity_minutes, default_job_duration_minutes
    Limit,                 \* max_slots_to_offer
    MaxClock, MaxNumber,   \* bounds: how late it gets, rows in the table
    MaxRestarts            \* bound

Number == 1 .. MaxNumber
Day == 0 .. Days - 1
Time == 0 .. Days * DayLength - 1

ASSUME DiaryAssumption ==
    /\ IsFiniteSet(Conv)
    /\ Tech \in SUBSET Nat /\ IsFiniteSet(Tech) /\ Tech # {}
    /\ {DayLength, Days, Granularity, Duration, Limit} \subseteq Nat \ {0}
    /\ {Opens, Closes} \subseteq 0 .. DayLength /\ ClosedDays \subseteq Day
    /\ {MaxClock, MaxNumber, MaxRestarts} \subseteq Nat

VARIABLES
    rows,      \* the table appointments, by number
    held,      \* World.appointments of each conversation, by number
    began,     \* World._now: when the conversation began, NotOpen before
    offered,   \* what its agent last heard from calendar.find_slots
    call,      \* its create that has a number and has not written the row
    clock, restarts

vars == <<rows, held, began, offered, call, clock, restarts>>

NotOpen == -1
NoTech == -1
NoCall == [number |-> 0]
NoRows == [n \in {} |-> 0]

\* `saw`, here and in a call, is history: the rows that were looked at, told
\* apart by number and owner.
NoOffer == [slots |-> {}, saw |-> {}]

-----------------------------------------------------------------------------
(* Times.                                                                  *)

Overlap(s, t) == s < t + Duration /\ t < s + Duration

\* The times of `day` at which a visit may start, for someone whose now it is:
\* from the opening, or on the present day the first step after now, to the
\* last at which the job is done by closing.
Startable(day, now) ==
    LET opening == day * DayLength + Opens
    IN {t \in Time :
           /\ day \notin ClosedDays
           /\ t >= opening /\ (t - opening) % Granularity = 0
           /\ t + Duration <= day * DayLength + Closes
           /\ now < t \/ now = opening}

Stands(visit) == visit.status # "cancelled"

\* store.appointments_between, from now on: rows that are still "booked".
Busy(now) == {n \in DOMAIN rows : rows[n].status = "booked" /\ rows[n].start >= now}

\* World.technician_busy: looks at this conversation's own visits.
TechnicianBusy(c, tech, t) ==
    \E n \in DOMAIN held[c] :
        Stands(held[c][n]) /\ held[c][n].tech = tech /\ Overlap(held[c][n].start, t)

Candidates == SUBSET Tech \ {{}}

\* A plausible slip: only a visit at the very same time counts as taken.
FindSlotsSameStart(c, candidates, limit) ==
    LET free == {t \in UNION {Startable(day, began[c]) : day \in Day} :
                    \A n \in Busy(began[c]) : rows[n].start # t}
        first == {t \in free : Cardinality({s \in free : s < t}) < limit}
    IN {[start |-> t, tech |-> Min(candidates)] : t \in first}

\* The slots of World.find_slots: the first `limit` times that are free, each
\* with the first candidate who is.
FindSlots(c, candidates, limit) ==
    LET Taken(t) == \E n \in Busy(began[c]) : Overlap(rows[n].start, t)
        Available(t) == {tech \in candidates : ~TechnicianBusy(c, tech, t)}
        free == {t \in UNION {Startable(day, began[c]) : day \in Day} :
                    ~Taken(t) /\ Available(t) # {}}
        first == {t \in free : Cardinality({s \in free : s < t}) < limit}
    IN {[start |-> t, tech |-> Min(Available(t))] : t \in first}

\* Who calendar.create_appointment sends when the agent names nobody: the
\* technician of the first free slot, whatever time is being booked.
FreeFirst(c, candidates) ==
    LET first == FindSlots(c, candidates, 1)
    IN IF first = {} THEN {NoTech} ELSE {slot.tech : slot \in first}

-----------------------------------------------------------------------------
(* The database.                                                           *)

\* A plausible slip: the counter of a world without a database (world.py:395).
NextIdInMemory == 1 + Max({0} \cup UNION {DOMAIN held[c] : c \in Conv})

\* store.next_id: one more than the highest number in the table.
NextId == 1 + Max({0} \cup DOMAIN rows)

Owned(which) == {<<n, rows[n].by>> : n \in which}

Put(f, n, row) == [i \in DOMAIN f \cup {n} |-> IF i = n THEN row ELSE f[i]]

\* World._persist_appointment: INSERT OR REPLACE, of the world's own copy.
Save(c, n, row) ==
    /\ rows' = Put(rows, n, row)
    /\ held' = [held EXCEPT ![c] = Put(@, n, row)]

-----------------------------------------------------------------------------
(* Operations.                                                             *)

Init ==
    /\ rows = NoRows
    /\ held = [c \in Conv |-> NoRows]
    /\ began = [c \in Conv |-> NotOpen]
    /\ offered = [c \in Conv |-> NoOffer]
    /\ call = [c \in Conv |-> NoCall]
    /\ clock = 0 /\ restarts = 0

Ready(c) == began[c] # NotOpen /\ call[c] = NoCall

\* SessionStore._build: a new world, whose clock is set once.
Open(c) ==
    /\ began[c] = NotOpen
    /\ began' = [began EXCEPT ![c] = clock]
    /\ UNCHANGED <<rows, held, offered, call, clock, restarts>>

Search(c) ==
    /\ Ready(c)
    /\ \E candidates \in Candidates :
        offered' = [offered EXCEPT ![c] =
            [slots |-> FindSlots(c, candidates, Limit), saw |-> Owned(Busy(began[c]))]]
    /\ UNCHANGED <<rows, held, began, call, clock, restarts>>

\* calendar.create_appointment, up to the number.
CreateAppointment(c) ==
    /\ Ready(c)
    /\ NextId <= MaxNumber
    /\ \E slot \in offered[c].slots :
        \E tech \in {slot.tech} \cup UNION {FreeFirst(c, some) : some \in Candidates} :
            call' = [call EXCEPT ![c] =
                [number |-> NextId, saw |-> Owned(DOMAIN rows),
                 row |-> [by |-> c, start |-> slot.start, tech |-> tech, status |-> "booked"]]]
    /\ UNCHANGED <<rows, held, began, offered, clock, restarts>>

\* The rest of it: the row is written.
Written(c) ==
    /\ call[c] # NoCall
    /\ Save(c, call[c].number, call[c].row)
    /\ call' = [call EXCEPT ![c] = NoCall]
    /\ UNCHANGED <<began, offered, clock, restarts>>

\* A plausible slip: the move is not persisted.
RescheduleUnsaved(c) ==
    /\ Ready(c)
    /\ \E n \in DOMAIN held[c], slot \in offered[c].slots :
        held' = [held EXCEPT ![c][n].start = slot.start, ![c][n].status = "rescheduled"]
    /\ UNCHANGED <<rows, began, offered, call, clock, restarts>>

\* calendar.reschedule; it does not ask whether the visit still stands.
Reschedule(c) ==
    /\ Ready(c)
    /\ \E n \in DOMAIN held[c], slot \in offered[c].slots :
        Save(c, n, [held[c][n] EXCEPT !.start = slot.start, !.status = "rescheduled"])
    /\ UNCHANGED <<began, offered, call, clock, restarts>>

Cancel(c) ==
    /\ Ready(c)
    /\ \E n \in DOMAIN held[c] :
        /\ Stands(held[c][n])
        /\ Save(c, n, [held[c][n] EXCEPT !.status = "cancelled"])
    /\ UNCHANGED <<began, offered, call, clock, restarts>>

Tick ==
    /\ clock < MaxClock
    /\ clock' = clock + 1
    /\ UNCHANGED <<rows, held, began, offered, call, restarts>>

\* The server is restarted: the conversations are gone, the table is not.
Restart ==
    /\ restarts < MaxRestarts
    /\ restarts' = restarts + 1
    /\ held' = [c \in Conv |-> NoRows]
    /\ began' = [c \in Conv |-> NotOpen]
    /\ offered' = [c \in Conv |-> NoOffer]
    /\ call' = [c \in Conv |-> NoCall]
    /\ UNCHANGED <<rows, clock>>

Next ==
    \/ \E c \in Conv :
        \/ Open(c) \/ Search(c) \/ CreateAppointment(c) \/ Written(c)
        \/ Reschedule(c) \/ Cancel(c)
    \/ Tick \/ Restart

Spec == Init /\ [][Next]_vars

-----------------------------------------------------------------------------
(* Properties.                                                             *)

Seen == SUBSET (Number \X Conv)

Visit ==
    [by: Conv, start: Time, tech: Tech \cup {NoTech},
     status: {"booked", "rescheduled", "cancelled"}]

TypeOK ==
    /\ DOMAIN rows \subseteq Number /\ \A n \in DOMAIN rows : rows[n] \in Visit
    /\ \A c \in Conv :
        /\ DOMAIN held[c] \subseteq Number
        /\ \A n \in DOMAIN held[c] : held[c][n] \in Visit
    /\ began \in [Conv -> {NotOpen} \cup 0 .. MaxClock]
    /\ offered \in [Conv -> [slots: SUBSET [start: Time, tech: Tech], saw: Seen]]
    /\ call \in [Conv -> {NoCall} \cup [number: Number, saw: Seen, row: Visit]]
    /\ clock \in 0 .. MaxClock /\ restarts \in 0 .. MaxRestarts

\* What a conversation was told is what the database holds: every visit it
\* keeps is on record as it keeps it, unless a clash of numbers gave the row to
\* somebody else (sessions.py:42, "it does not drop a customer, a ticket or a
\* booking").
MemoryIsOnRecord ==
    \A c \in Conv : \A n \in DOMAIN held[c] :
        n \in DOMAIN rows /\ (rows[n].by = c => rows[n] = held[c][n])

\* No create is about to write over a row that was there when it took its
\* number, across restarts: numbers clash only between two creates in flight at
\* once (store.py:458, "Sequential per prefix, and unique across restarts").
NumbersClashOnlyInFlight ==
    \A c \in Conv :
        call[c] # NoCall /\ call[c].number \in DOMAIN rows
            => <<call[c].number, rows[call[c].number].by>> \notin call[c].saw

\* A booked visit that a time somebody was offered would overlap was not in the
\* diary when the search looked, or had begun: a stale offer is the one way to a
\* double booking among visits nobody moved (world.py:548).
SoldTwiceOnlyUnseen ==
    \A c \in Conv : \A slot \in offered[c].slots, n \in DOMAIN rows :
        rows[n].status = "booked" /\ Overlap(rows[n].start, slot.start)
            => <<n, rows[n].by>> \notin offered[c].saw

\* A time that is offered overlaps no visit still to begin that another
\* conversation has in the diary (world.py:548, "Everything booked in the window
\* that this process does not hold in memory").
NoTimeIsSoldTwice ==
    [][\A c \in Conv : offered'[c] # offered[c] =>
        \A slot \in offered'[c].slots, n \in DOMAIN rows :
            (rows[n].by # c /\ Stands(rows[n]) /\ rows[n].start >= began[c])
                => ~Overlap(slot.start, rows[n].start)]_vars
=============================================================================
