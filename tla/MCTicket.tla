------------------------------ MODULE MCTicket ------------------------------
\* Instances of Ticket for TLC.
EXTENDS Ticket

\* The milestones the passing run's properties ask about.
Landmarks ==
    {"Appointment Booked", "Warranty Booked", "Emergency Job Dispatched",
     "Technician En Route", "Technician On Site", "Inspection Completed",
     "Large Project Under Review", "Quote Sent", "Warranty Eligibility Review",
     "Warranty Technician Review"}
=============================================================================
