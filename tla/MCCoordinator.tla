---------------------------- MODULE MCCoordinator ----------------------------
(***************************************************************************)
(* Two processes, a plan of two actions in order, and two runs.            *)
(***************************************************************************)
EXTENDS Coordinator, TLC
CONSTANTS p1, p2, a1, a2, r1, r2
MCProcesses == {p1, p2}
MCActions == {a1, a2}
MCBefore == {<<a1, a2>>}
MCOrder == <<a1, a2>>
MCRuns == {r1, r2}
MCAttempts == MCRuns \X MCActions
MCSymmetry == Permutations({p1, p2}) \union Permutations({r1, r2})
=============================================================================
