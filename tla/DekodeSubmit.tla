----------------------------- MODULE DekodeSubmit -----------------------------
(***************************************************************************)
(* DekodeSession.submit end to end: the request built from the session id *)
(* and the changes, the server's verdict, and SubmitResult.from_proto on  *)
(* the answer, together with the codebase_version the session caches.     *)
(* The server keeps a codebase version that an accepted submit of this or *)
(* of another session advances (spec.md section 6: submit returns the      *)
(* newVersion).  The call itself is atomic here; DekodeSession models its  *)
(* interleavings.                                                          *)
(***************************************************************************)
EXTENDS Naturals

CONSTANTS
    WireStatuses,   \* SubmitStatus values a server can put in a response
    MaxVersion      \* bound on the server's codebase version

(* models.py _SUBMIT_STATUS_FROM_PROTO: the three statuses the SDK knows.  *)
KnownStatuses == {"ACCEPTED", "REJECTED", "CONFLICT"}
SubmitStatusFromProto == [s \in KnownStatuses |-> s]

(* SubmitResult.from_proto: the status looked up in the map (a KeyError    *)
(* for any other value), new_version only when the field is present.      *)
SubmitResultFromProto(pb) ==
    IF pb.status \in DOMAIN SubmitStatusFromProto
    THEN [kind |-> "SubmitResult", status |-> SubmitStatusFromProto[pb.status],
          new_version |-> IF pb.has_new_version THEN pb.new_version ELSE "None"]
    ELSE [kind |-> "KeyError", status |-> "none", new_version |-> "None"]

VARIABLES
    version,      \* the codebase version the server holds
    connected,    \* whether DekodeClient.connect has returned the session
    cached,       \* session.codebase_version
    returned      \* what the last session.submit returned or raised

vars == <<version, connected, cached, returned>>

Init ==
    /\ version = 0
    /\ connected = FALSE
    /\ cached = 0
    /\ returned = [kind |-> "none", status |-> "none", new_version |-> "None"]

(* DekodeClient.connect: the session is built with the version the server *)
(* reports in its ConnectResponse.                                         *)
Connect ==
    /\ ~connected
    /\ connected' = TRUE
    /\ cached' = version
    /\ UNCHANGED <<version, returned>>

(* session.submit: the server answers with a status; an ACCEPTED one      *)
(* advances its version and carries it as new_version.  The session then *)
(* converts the answer and returns it; it does not touch codebase_version. *)
Submit ==
    /\ connected
    /\ \E st \in WireStatuses :
         LET accepted == st = "ACCEPTED"
             pb == [status |-> st, has_new_version |-> accepted,
                    new_version |-> version + 1]
         IN /\ accepted => version < MaxVersion
            /\ version' = IF accepted THEN version + 1 ELSE version
            /\ returned' = SubmitResultFromProto(pb)
    /\ UNCHANGED <<connected, cached>>

(* Another agent's session on the same codebase gets a submit accepted.   *)
OtherSessionSubmits ==
    /\ version < MaxVersion
    /\ version' = version + 1
    /\ UNCHANGED <<connected, cached, returned>>

Next == Connect \/ Submit \/ OtherSessionSubmits

Spec == Init /\ [][Next]_vars

-----------------------------------------------------------------------------

(* The class docstring of DekodeSession: it holds "the current             *)
(* codebase_version".  Once this session's own submit has been accepted,  *)
(* the version it reports is the one that submit produced.                *)
VersionCurrent ==
    (returned.kind = "SubmitResult" /\ returned.status = "ACCEPTED")
        => cached = returned.new_version

=============================================================================
