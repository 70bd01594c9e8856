----------------------------- MODULE Committee -----------------------------
(***************************************************************************)
(* The static membership of a deployment: the authorities of the committee *)
(* file, the nodes the parameters file declares faulty, and the two vote   *)
(* thresholds every protocol of the repository computes from the size of   *)
(* the committee (core/config.go).                                         *)
(***************************************************************************)
EXTENDS Integers, FiniteSets

CONSTANTS Node,    \* the authorities of the committee
          Faulty   \* the nodes whose ID is below parameters.Faults

ASSUME CommitteeAssumption ==
  /\ IsFiniteSet(Node)
  /\ Node # {}
  /\ Faulty \subseteq Node

\* A faulty node opens its network but its Run method returns at once: it
\* receives messages and never handles one.
Honest == Node \ Faulty

Size == Cardinality(Node)

\* f, the number of faults tolerated
MaxFaults == (Size - 1) \div 3

\* 2f+1
HightThreshold == 2 * MaxFaults + 1

\* f+1
LowThreshold == MaxFaults + 1

\* A set of nodes large enough to certify something.
IsQuorum(S) == Cardinality(S) >= HightThreshold
=============================================================================
