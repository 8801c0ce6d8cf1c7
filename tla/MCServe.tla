------------------------------ MODULE MCServe -------------------------------
(***************************************************************************)
(* The way of a request to a server: a behaviour is about the limits,      *)
(* sessions and schedulers that decide on it (policy), or about its life   *)
(* in the queues of server connections (HttpFwd, policy "none").           *)
(***************************************************************************)
EXTENDS HttpFwd, MCPolicy, TLC

Symmetry == Permutations(Conn)
fwdVars == <<queue, msgSent, nipq, flags, up, wire, ctx, nip, retries, sent, fresh, pick, held, limbo, errq, got, drops>>

ServeInit == PolicyInit /\ Init
ServeNext ==
    \/ policy = "none" /\ Next /\ UNCHANGED policyVars
    \/ policy # "none" /\ PolicyNext /\ UNCHANGED fwdVars
ServeSpec == ServeInit /\ [][ServeNext]_<<policyVars, fwdVars>>
=============================================================================
