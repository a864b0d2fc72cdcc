------------------------------ MODULE RpcPool ------------------------------
(***************************************************************************)
(* The pool of RPC endpoints with a circuit breaker per endpoint           *)
(* (crates/solana-core/src/rpc/mod.rs).  A breaker counts consecutive      *)
(* failures; open is the age of circuit_open_since, which stops counting   *)
(* at RecoveryInterval: elapsed() is only ever compared with it.           *)
(***************************************************************************)
EXTENDS Naturals, Null

CONSTANTS
    EndpointCount,      \* endpoints are numbered, the primary is 1
    WriteEndpoints,     \* the ones with is_write_endpoint
    FailureThreshold,
    RecoveryInterval

ASSUME EndpointAssumption ==
    EndpointCount \in Nat /\ WriteEndpoints \subseteq 1 .. EndpointCount
ASSUME ThresholdAssumption == FailureThreshold \in Nat
ASSUME RecoveryAssumption == RecoveryInterval \in Nat

VARIABLE endpoints      \* endpoint -> its breaker

Endpoints == 1 .. EndpointCount

\* The failure count saturates at the threshold, the only value it is
\* compared with.
PoolTypeOK ==
    endpoints \in [Endpoints -> [failures : 0 .. FailureThreshold,
                                   open : (0 .. RecoveryInterval) \cup {NULL}]]

PoolInit == endpoints = [e \in Endpoints |-> [failures |-> 0, open |-> NULL]]

\* Mutant: an open circuit is never probed.
is_available_Never(e) == endpoints[e].open = NULL

is_available(e) == endpoints[e].open \in {NULL, RecoveryInterval}

\* The first available endpoint of some, as a set: empty when there is none
\* (PoolExhausted).
FirstAvailable(some) ==
    LET available == {e \in some : is_available(e)}
    IN  {e \in available : \A f \in available : e <= f}

read_client == FirstAvailable(Endpoints)

write_client ==
    LET preferred == FirstAvailable(WriteEndpoints)
    IN  IF preferred # {} THEN preferred ELSE read_client

record_success(e) ==
    endpoints' = [endpoints EXCEPT ![e] = [failures |-> 0, open |-> NULL]]

\* Opens the circuit at the threshold; a circuit that is open stays as old as
\* it is.
record_failure(e) ==
    LET n == endpoints[e].failures
        failures == IF n < FailureThreshold THEN n + 1 ELSE n
    IN  endpoints' = [endpoints EXCEPT
            ![e].failures = failures,
            ![e].open = IF failures >= FailureThreshold /\ @ = NULL THEN 0 ELSE @]

\* A tick of the clock that circuit_open_since.elapsed() reads.
Elapse ==
    endpoints' = [e \in Endpoints |->
        [endpoints[e] EXCEPT
            !.open = IF @ \in {NULL, RecoveryInterval} THEN @ ELSE @ + 1]]

=============================================================================
