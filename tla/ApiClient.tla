------------------------------- MODULE ApiClient --------------------------------
(*****************************************************************************)
(* One request of Client.Do (src/pkg/api/api.go) with the options of newClient *)
(* (src/cmd/api/api.go): after an error the NTLM option (option.go) tries again *)
(* with other credentials, through Do, which runs the option once more; and Do *)
(* itself tries again with the address of the API when its name is not found. *)
(* Both change the client they were called on.                                *)
(*****************************************************************************)
EXTENDS Naturals

CONSTANTS
  Procs,      (* The processes that make a request.                           *)
  NtlmProxy,  (* Those with an NTLM proxy.                                    *)
  CustomUrl   (* Those with another API than the default one.                 *)

VARIABLES
  request,    (* Where the request of each process is.                        *)
  transport,  (* The client's transport.                                      *)
  timed,      (* Whether the client has a timeout.                            *)
  host,       (* Whether the request names the API's host or its address.     *)
  body        (* Whether the body was read by an attempt.                     *)

Errors == {"dns", "connect", "late"}

Requests == {"none", "try", "taken", "failed", "panicked"}

ClientInit ==
  /\ request = [p \in Procs |-> "none"]
  /\ transport = [p \in Procs |-> "plain"]
  /\ timed = [p \in Procs |-> FALSE]
  /\ host = [p \in Procs |-> "name"]
  /\ body = [p \in Procs |-> "unread"]

New(p, r, limited) ==
  /\ request' = [request EXCEPT ![p] = r]
  /\ transport' = [transport EXCEPT ![p] = "plain"]
  /\ timed' = [timed EXCEPT ![p] = limited]
  /\ host' = [host EXCEPT ![p] = "name"]
  /\ body' = [body EXCEPT ![p] = "unread"]

\* newClient, and a request made with it.
NewRequest(p) == New(p, "try", TRUE)

\* The request has returned, and its client is not used again.
Finish(p) == New(p, "none", FALSE)

\* An attempt can end in an error: the host is not found, or cannot be connected
\* to, or what fails, or times out, comes after the body was read.
Possible(p, e) == e = "dns" => host[p] = "name"

Read(p, e) == IF e = "late" THEN "read" ELSE body[p]

\* The API answers 201 or 202.  A body that was read is not sent again.
Answer(p) ==
  /\ request[p] = "try"
  /\ body[p] = "unread"
  /\ request' = [request EXCEPT ![p] = "taken"]
  /\ UNCHANGED <<transport, timed, host, body>>

\* The API answers with another status: ErrAuth, ErrBadRequest or Err.
Refuse(p) ==
  /\ request[p] = "try"
  /\ body[p] = "unread"
  /\ request' = [request EXCEPT ![p] = "failed"]
  /\ UNCHANGED <<transport, timed, host, body>>

\* The NTLM option: its transport replaces the one it wraps.
RetryNtlm(p, e) ==
  /\ request[p] = "try"
  /\ Possible(p, e)
  /\ p \in NtlmProxy
  /\ transport[p] = "plain"
  /\ transport' = [transport EXCEPT ![p] = "ntlm"]
  /\ body' = [body EXCEPT ![p] = Read(p, e)]
  /\ UNCHANGED <<request, timed, host>>

\* The second time, LazyCreateNewTransport takes the NTLM transport for an
\* http.Transport.
PanicNtlm(p, e) ==
  /\ request[p] = "try"
  /\ Possible(p, e)
  /\ p \in NtlmProxy
  /\ transport[p] = "ntlm"
  /\ request' = [request EXCEPT ![p] = "panicked"]
  /\ UNCHANGED <<transport, timed, host, body>>

\* Do tries again with the API's address.  The new http.Client has no timeout.
RetryAddress(p) ==
  /\ request[p] = "try"
  /\ host[p] = "name"
  /\ p \notin NtlmProxy \cup CustomUrl
  /\ transport' = [transport EXCEPT ![p] = "address"]
  /\ timed' = [timed EXCEPT ![p] = FALSE]
  /\ host' = [host EXCEPT ![p] = "address"]
  /\ UNCHANGED <<request, body>>

\* Err, or ErrTimeout.
GiveUp(p, e) ==
  /\ request[p] = "try"
  /\ Possible(p, e)
  /\ p \notin NtlmProxy
  /\ e = "dns" => p \in CustomUrl
  /\ request' = [request EXCEPT ![p] = "failed"]
  /\ UNCHANGED <<transport, timed, host, body>>

AttemptFails(p) ==
  \/ Refuse(p)
  \/ RetryAddress(p)
  \/ \E e \in Errors : RetryNtlm(p, e) \/ PanicNtlm(p, e) \/ GiveUp(p, e)
================================================================================
