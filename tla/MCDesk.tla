------------------------------- MODULE MCDesk -------------------------------
\* Instances of Desk for TLC.
EXTENDS Desk, TLC

\* Bookings of one kind of number are interchangeable.
Bookings == Permutations(ApptId)

\* Everybody is merely assigned when dispatched.
AllAssigned == [k \in Technician |-> "assigned"]

\* What is recorded of the property: an apartment, corrected or not, of any size.
AnyTags == Tags
ApartmentOnly == {[apartment |-> TRUE, large |-> l] : l \in BOOLEAN}

CalendarTools == {"calendar.create_appointment", "calendar.reschedule", "calendar.cancel"}
PaymentTools == {"payment.send_deposit_link", "payment.check_status"}
=============================================================================
