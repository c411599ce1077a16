----------------------------- MODULE MCProcess -----------------------------
(* Values for the constants of Process, for TLC.                           *)
EXTENDS Process

\* One key is missing, one is a duration or zero, one is no duration or set.
MCConfigMaps ==
    { [managed_clusters |-> Undefined, policies |-> 7, control_info |-> Invalid],
      [managed_clusters |-> Undefined, policies |-> 0, control_info |-> 3] }

=============================================================================
