--------------------------- MODULE MCScopedWatch ---------------------------
(* The instances of ScopedWatch: a root R and a root A nested in it;        *)
(* directory B belongs to both, C to R alone.                               *)
EXTENDS ScopedWatch

R == <<"r">>
A == <<"r", "a">>
B == <<"r", "a", "b">>
C == <<"r", "c">>

MCDirs == {A, B, C}
MCRoots == {R, A}

AnyEnd == {<<"worked", FALSE>>, <<"barren", FALSE>>, <<"barren", TRUE>>}
CleanEnd == {<<"worked", FALSE>>}

(* A nested root comes and goes over a directory of the outer one.          *)
Nested == [roots |-> {R, A}, gens |-> 2, dirs |-> {B}, root_answers |-> {"refused"},
           scope_answers |-> {"granted", "terminal"}, ends |-> CleanEnd, old |-> 1, clocks |-> {}]
(* A root is bound to another connection while its drains are busy.         *)
Rebound == [roots |-> {R}, gens |-> 2, dirs |-> {B}, root_answers |-> {"refused", "granted", "terminal"},
            scope_answers |-> {"granted"}, ends |-> CleanEnd, old |-> 2, clocks |-> {}]
(* A directory and one below it compete for the budget, with recursive      *)
(* watches that are given up and with watches that are refused depth.       *)
Cover == [roots |-> {R}, gens |-> 1, dirs |-> {A, B}, root_answers |-> {"refused"},
          scope_answers |-> {"granted"}, ends |-> CleanEnd, old |-> 0, clocks |-> {"cool", "age"}]
Narrow == [roots |-> {R}, gens |-> 1, dirs |-> {A, B}, root_answers |-> {"refused"},
           scope_answers |-> {"granted", "refused"}, ends |-> CleanEnd, old |-> 0, clocks |-> {}]
(* Directories outnumber the table of candidates.                           *)
Crowded == [roots |-> {R}, gens |-> 1, dirs |-> {A, B, C}, root_answers |-> {"refused"},
            scope_answers |-> {"granted"}, ends |-> CleanEnd, old |-> 0, clocks |-> {}]
(* One directory and a backend that answers anything.                       *)
Fickle == [roots |-> {R}, gens |-> 1, dirs |-> {B}, root_answers |-> {"refused", "granted", "unsupported"},
           scope_answers |-> {"granted", "refused", "terminal", "retry"}, ends |-> AnyEnd, old |-> 0,
           clocks |-> {"expire"}]
MCScenarios == {Nested, Rebound, Cover, Narrow, Crowded, Fickle}

(* What the proof of Settled assumes holds of the run.                      *)
ASSUME RunsOnTime == OnTime
=============================================================================
