------------------------------ MODULE Records -------------------------------
(***************************************************************************)
(* One customer's record in the database (src/plumbing/store.py) and the   *)
(* copies of it that conversations keep in their worlds                    *)
(* (src/plumbing/world.py).  An agent may look up and change any number,   *)
(* so several conversations may hold one record at once.  Looking for it   *)
(* asks the database only the first time; saving it is two transactions,   *)
(* reading what is known and writing what comes of it; a save may find     *)
(* the database locked.  A restart drops the copies.                       *)
(***************************************************************************)
EXTENDS Naturals

CONSTANTS
    Conv,            \* conversations
    Field,           \* name, address, email, property_type
    Required,        \* what crm.create_customer insists on
    Email,           \* the field email.request_materials sets
    NoRecord,        \* None
    MaxRestarts      \* bound


VARIABLES
    seed,            \* what world_seed.yaml has on the number, if anything
    customer,        \* the row of the table customers
    held,            \* World.customers[key] of each conversation
    saving,          \* where its upsert_customer is, and what that read
    restarts,
    behind,          \* history: whose copy was not read or saved last
    unsaved          \* history: who changed its copy and did not save it

recordsVars == <<seed, customer, held, saving, restarts, behind, unsaved>>

\* A value is named after who gave it: a conversation, an earlier one, or the seed.
Blank == "blank"
Value == Conv \cup {Blank, "earlier", "seed"}
Record == [Field -> Value]

ASSUME RecordsAssumption ==
    /\ Required \subseteq Field /\ Email \in Field
    /\ NoRecord \notin Record
    /\ MaxRestarts \in Nat

Idle == [step |-> "idle", known |-> NoRecord]

-----------------------------------------------------------------------------
\* World.__init__ fills in the customers of the seed, database or not.
Fresh ==
    /\ held' = [c \in Conv |-> seed]
    /\ behind' = IF seed # NoRecord THEN Conv ELSE {}
    /\ unsaved' = {}
    /\ saving' = [c \in Conv |-> Idle]

RecordsInit ==
    /\ seed \in {NoRecord} \cup [Field -> {Blank, "seed"}]
    /\ customer \in {NoRecord} \cup [Field -> {Blank, "earlier"}]
    /\ held = [c \in Conv |-> seed]
    /\ behind = IF seed # NoRecord THEN Conv ELSE {}
    /\ unsaved = {}
    /\ saving = [c \in Conv |-> Idle]
    /\ restarts = 0

Ready(c) == saving[c].step = "idle"

\* World.find_customer: memory first, then the database.
FindCustomer(c) == IF held[c] # NoRecord THEN held[c] ELSE customer

\* Who keeps an old copy after c has looked.
BehindAfterLooking(c) == IF held[c] # NoRecord THEN behind ELSE behind \ {c}

LookupByPhone(c) ==
    /\ Ready(c)
    /\ held' = [held EXCEPT ![c] = FindCustomer(c)]
    /\ behind' = BehindAfterLooking(c)
    /\ UNCHANGED <<seed, customer, saving, restarts, unsaved>>

\* World.save_customer: the copy is changed first, and then the database asked.
SaveCustomer(c, record) ==
    /\ held' = [held EXCEPT ![c] = record]
    /\ saving' = [saving EXCEPT ![c] = [step |-> "read", known |-> NoRecord]]

\* When there is a record already, creating one is looking it up.
CreateCustomer(c) ==
    /\ Ready(c)
    /\ FindCustomer(c) = NoRecord
    /\ \E given \in SUBSET Field :
        /\ Required \subseteq given
        /\ SaveCustomer(c, [f \in Field |-> IF f \in given THEN c ELSE Blank])
    /\ UNCHANGED <<seed, customer, restarts, behind, unsaved>>

UpdateCustomer(c) ==
    /\ Ready(c)
    /\ FindCustomer(c) # NoRecord
    /\ \E updates \in SUBSET Field \ {{}} :
        SaveCustomer(c, [f \in Field |-> IF f \in updates THEN c ELSE FindCustomer(c)[f]])
    /\ behind' = BehindAfterLooking(c)
    /\ UNCHANGED <<seed, customer, restarts, unsaved>>

\* store.upsert_customer, first transaction: what is known.
ReadKnown(c) ==
    /\ saving[c].step = "read"
    /\ saving' = [saving EXCEPT ![c] = [step |-> "write", known |-> customer]]
    /\ UNCHANGED <<seed, customer, held, restarts, behind, unsaved>>

KnownValue(known, f) == IF known = NoRecord THEN Blank ELSE known[f]

\* A plausible slip: what is blank in the copy is blank in the row.
MergedAsGiven(record, known) == [f \in Field |-> record[f]]

\* A plausible slip: what is known already wins.
MergedKnownFirst(record, known) ==
    [f \in Field |-> IF KnownValue(known, f) # Blank THEN KnownValue(known, f) ELSE record[f]]

\* "Blank incoming values never overwrite something already known."
Merged(record, known) ==
    [f \in Field |-> IF record[f] # Blank THEN record[f] ELSE KnownValue(known, f)]

\* The second transaction: an UPDATE, or an INSERT where nothing was known.
WriteMerged(c) ==
    /\ saving[c].step = "write"
    /\ saving[c].known = NoRecord => customer = NoRecord
    /\ customer' = Merged(held[c], saving[c].known)
    /\ saving' = [saving EXCEPT ![c] = Idle]
    /\ behind' = {d \in Conv \ {c} : held[d] # NoRecord}
    /\ unsaved' = unsaved \ {c}
    /\ UNCHANGED <<seed, held, restarts>>

\* The database is locked; or somebody else has inserted the row: the agent
\* reads the error, and the copy stays as it is.
SaveFails(c) ==
    /\ ~Ready(c)
    /\ saving' = [saving EXCEPT ![c] = Idle]
    /\ unsaved' = unsaved \cup {c}
    /\ UNCHANGED <<seed, customer, held, restarts, behind>>

\* email.request_materials puts the address on the copy, whether or not the
\* email then goes out, and nothing of it in the database.
RequestMaterials(c) ==
    /\ Ready(c)
    /\ held[c] # NoRecord
    /\ held' = [held EXCEPT ![c][Email] = c]
    /\ unsaved' = unsaved \cup {c}
    /\ UNCHANGED <<seed, customer, saving, restarts, behind>>

Restart ==
    /\ restarts < MaxRestarts
    /\ restarts' = restarts + 1
    /\ Fresh
    /\ UNCHANGED <<seed, customer>>

RecordsNext ==
    \/ \E c \in Conv :
        \/ LookupByPhone(c) \/ CreateCustomer(c) \/ UpdateCustomer(c)
        \/ ReadKnown(c) \/ WriteMerged(c) \/ SaveFails(c) \/ RequestMaterials(c)
    \/ Restart

RecordsSpec == RecordsInit /\ [][RecordsNext]_recordsVars

-----------------------------------------------------------------------------
(* Properties *)

\* The type invariant.
RecordsTypeOK ==
    /\ seed \in {NoRecord} \cup Record
    /\ customer \in {NoRecord} \cup Record
    /\ held \in [Conv -> {NoRecord} \cup Record]
    /\ saving \in [Conv -> [step : {"idle", "read", "write"}, known : {NoRecord} \cup Record]]
    /\ \A c \in Conv : ~Ready(c) => held[c] # NoRecord
    /\ behind \subseteq Conv /\ unsaved \subseteq Conv
    /\ restarts \in Nat

\* What is known of a customer is blanked only by a save that overlapped the one
\* that told us (store.py:242, an agent "must not wipe the address collected in a
\* call last week"): that save had read the record before the value was there.
KnownIsBlankedOnlyInFlight ==
    [][\A f \in Field :
          (customer # NoRecord /\ customer[f] # Blank /\ customer'[f] = Blank) =>
              \E c \in Conv : /\ saving[c].step = "write" /\ saving'[c] = Idle
                              /\ saving[c].known[f] = Blank]_recordsVars

\* What a conversation goes by is what the database holds, unless somebody saved
\* the record since, the save failed, or the address of an email was changed without
\* one: "memory first, then the database" (world.py:477) is sound otherwise.
CopiesAgree ==
    \A c \in Conv :
        (Ready(c) /\ held[c] # NoRecord /\ c \notin behind \cup unsaved) =>
            /\ customer # NoRecord
            /\ \A f \in Field : held[c][f] # Blank => customer[f] = held[c][f]
=============================================================================
