------------------------------- MODULE MCFlow -------------------------------
\* The flow of src/flow/flow.yaml, and its instance for TLC.
EXTENDS FlowRig, TLC

Step(tools, status, next, branch) ==
    [tools |-> tools, sets_status |-> status, next |-> next, branch |-> branch]

Write == {"ticket_set_fields", "step_finished"}

FlowYaml ==
    "greeting" :> Step(Write, "New Inquiry", "identify", <<>>)
 @@ "identify" :> Step(Write \cup {"crm_lookup_by_phone"}, "Phone Verified", NoNode,
        [new |-> "new_customer", existing |-> "warranty_check",
         booking_change |-> "appointment_change", no_number |-> "no_number"])
 @@ "no_number" :> Step({"rules_get_service_options", "ticket_set_fields"}, "Closed",
        NoNode, <<>>)
 @@ "appointment_change" :> Step({"calendar_find_booking", "technician_notify",
        "schedule_create_followup", "ticket_set_fields"},
        "Awaiting Technician Confirmation", NoNode, <<>>)
 @@ "new_customer" :> Step(Write \cup {"crm_create_customer"}, "Customer Identified",
        "property_ask", <<>>)
 @@ "warranty_check" :> Step(Write \cup {"crm_get_warranty_candidates"},
        "Customer Identified", NoNode,
        [claim |-> "warranty_handover", none |-> "property_ask"])
 @@ "property_ask" :> Step(Write, "Needs Assessment", "property_route", <<>>)
 @@ "property_route" :> Step({"step_finished"}, "Needs Assessment", NoNode,
        [ok |-> "problem", building_project |-> "large_project", declined |-> "declined"])
 @@ "declined" :> Step({"sms_send", "ticket_set_fields"}, "Closed", NoNode, <<>>)
 @@ "problem" :> Step(Write, "Needs Assessment", "sizing", <<>>)
 @@ "sizing" :> Step(Write \cup {"rules_get_job_sizing"}, "Needs Assessment", NoNode,
        [large |-> "large_project", small |-> "offer_options"])
 @@ "large_project" :> Step({"ticket_set_fields", "escalate_raise",
        "schedule_create_followup"}, "Escalated to Supervisor", NoNode, <<>>)
 @@ "warranty_handover" :> Step({"ticket_set_fields", "escalate_raise",
        "schedule_create_followup"}, "Escalated to Supervisor", NoNode, <<>>)
 @@ "offer_options" :> Step(Write \cup {"clock_now", "calendar_find_slots",
        "rules_get_service_options"}, "Awaiting Appointment Selection",
        "service_choice", <<>>)
 @@ "service_choice" :> Step(Write, "Awaiting Appointment Selection", NoNode,
        [chose_emergency |-> "emergency", chose_normal |-> "booking"])
 @@ "emergency" :> Step({"rules_get_safety_advisory", "ticket_set_fields",
        "escalate_raise", "schedule_create_followup"}, "Escalated to Supervisor",
        NoNode, <<>>)
 @@ "booking" :> Step({"calendar_create_appointment", "ticket_set_fields", "sms_send",
        "technician_notify", "schedule_create_followup"}, "Appointment Booked",
        NoNode, <<>>)

ToolsOf(flow) == UNION {flow[n].tools : n \in DOMAIN flow}

Yaml == INSTANCE FlowGraph WITH
    Node <- DOMAIN FlowYaml, Entry <- "greeting", Flow <- FlowYaml,
    Tool <- ToolsOf(FlowYaml)

ASSUME YamlAssumption == Yaml!HangsTogether /\ Yaml!LastStepsDoNotMoveOn

\* The instance: the same steps, with the questions in between left out.
Steps == {"identify", "no_number", "service_choice", "booking"}

ShortFlow ==
    [n \in Steps |->
        CASE n = "identify" -> [FlowYaml[n] EXCEPT
                 !.branch = [new |-> "service_choice", no_number |-> "no_number"]]
          [] n = "service_choice" -> [FlowYaml[n] EXCEPT !.branch = [chose_normal |-> "booking"]]
          [] OTHER -> FlowYaml[n]]

Tools == ToolsOf(ShortFlow)
=============================================================================
