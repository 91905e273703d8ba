-------------------------------- MODULE Setup --------------------------------
(***************************************************************************)
(* setup.sh: what it restores on a machine, run again after it failed or   *)
(* was interrupted. Under "set -e" and pipefail the first failing command  *)
(* ends a run. What is on disk stays, and the tests that skip a finished   *)
(* step look at one file or directory of what the step makes, so whatever  *)
(* is written bit by bit (packages, the tree, each header, the build, the  *)
(* runner) is there in part for a while, and a run can stop there.         *)
(***************************************************************************)
EXTENDS Naturals, Sequences

CONSTANT MaxRuns  \* bound: runs of the script

SetupAssumption == MaxRuns \in Nat

\* autoconf.h and the eight headers of fixed text, in the script's order.
NHeaders == 9

VARIABLES
  modules,     \* the checkout has .gitmodules (a source archive has not)
  step,        \* the step of the run; "stopped" between runs, "complete" at the end
  runs,        \* runs started
  module,      \* the submodule is checked out
  clang,       \* the LLVM packages: none, partial (clang-23 but not all of them), whole
  ksrc,        \* the kernel tree: none, early (no include/linux), late, pinned, tip
  headers,     \* the headers made so far: each partial or whole
  uml,         \* uml-veristat: none, partial (no kernel yet), linux, built
  runner,      \* tools/bpf_runner: none, partial, built
  before       \* ghost: the packages, the tree and the headers when the run began

vars == <<modules, step, runs, module, clang, ksrc, headers, uml, runner, before>>
disk == <<module, clang, ksrc, headers, uml, runner>>

Found == [clang |-> clang, ksrc |-> ksrc, headers |-> headers]

Init ==
  /\ modules \in BOOLEAN /\ step = "stopped" /\ runs = 0
  /\ module = FALSE /\ clang = "none" /\ ksrc = "none" /\ headers = <<>>
  /\ uml = "none" /\ runner = "none" /\ before = Found

GoOn(s) == step' = s /\ UNCHANGED <<modules, runs, before>>

Fails == GoOn("stopped") /\ UNCHANGED disk

Run ==
  /\ step \in {"stopped", "complete"} /\ runs < MaxRuns
  /\ runs' = runs + 1 /\ step' = "submodules" /\ before' = Found
  /\ UNCHANGED <<modules, disk>>

\* A signal, or the sandbox goes away under the run.
Interrupt ==
  /\ step \notin {"stopped", "complete"}
  /\ Fails

Submodules(ok) ==
  /\ step = "submodules"
  /\ IF modules /\ ~ok THEN Fails
     ELSE /\ module' = (module \/ modules) /\ GoOn("clang")
          /\ UNCHANGED <<clang, ksrc, headers, uml, runner>>

\* The pipe into tail hides the status of apt-get.
InstallClangNoPipefail(ok) ==
  /\ step = "clang"
  /\ clang' = (IF ok THEN "whole" ELSE clang) /\ GoOn("kernel")
  /\ UNCHANGED <<module, ksrc, headers, uml, runner>>

\* command -v clang-23, else apt-get, which unpacks clang-23 before the rest.
InstallClang(ok) ==
  \/ step = "clang" /\ clang # "none" /\ GoOn("kernel") /\ UNCHANGED disk
  \/ step = "clang" /\ clang = "none" /\ ok /\ clang' = "partial" /\ GoOn("apt-get")
     /\ UNCHANGED <<module, ksrc, headers, uml, runner>>
  \/ step = "apt-get" /\ ok /\ clang' = "whole" /\ GoOn("kernel")
     /\ UNCHANGED <<module, ksrc, headers, uml, runner>>
  \/ step = "clang" /\ clang = "none" /\ ~ok /\ Fails
  \/ step = "apt-get" /\ ~ok /\ Fails

\* [ -d ${KSRC}/include/linux ]
KernelPresent == ksrc \in {"late", "pinned", "tip"}

\* curl gets the snapshot, or the tip is cloned instead; git refuses a directory
\* that is not empty.
Fetch(snapshot) ==
  /\ step = "kernel"
  /\ \/ KernelPresent /\ GoOn("headers")
     \/ ~KernelPresent /\ snapshot /\ GoOn("extract")
     \/ ~KernelPresent /\ ~snapshot /\ GoOn(IF ksrc = "none" THEN "clone" ELSE "stopped")
  /\ UNCHANGED disk

\* tar writes the tree file by file; it fails on a full disk, and rm -f follows.
Extract(ok) ==
  /\ step = "extract"
  /\ IF ~ok THEN Fails
     ELSE /\ CASE ksrc = "none" -> ksrc' = "early" /\ GoOn("extract")
               [] ksrc = "early" -> ksrc' = "late" /\ GoOn("extract")
               [] OTHER -> ksrc' = "pinned" /\ GoOn("headers")
          /\ UNCHANGED <<module, clang, headers, uml, runner>>

\* git removes what it has cloned when it fails, but not when it is killed.
Clone(ok) ==
  /\ step = "clone"
  /\ IF ~ok THEN ksrc' = "none" /\ GoOn("stopped")
     ELSE CASE ksrc = "none" -> ksrc' = "early" /\ GoOn("clone")
            [] ksrc = "early" -> ksrc' = "late" /\ GoOn("clone")
            [] OTHER -> ksrc' = "tip" /\ GoOn("headers")
  /\ UNCHANGED <<module, clang, headers, uml, runner>>

\* [ ! -f ], then the header is opened and written. mkdir and opening can fail; without
\* /proc/config.gz autoconf.h is not opened. After the last one the compile test follows,
\* which "|| true" never fails.
OpenHeader(ok) ==
  /\ step = "headers"
  /\ \/ Len(headers) = NHeaders /\ GoOn("uml") /\ UNCHANGED disk
     \/ Len(headers) < NHeaders /\ ok /\ headers' = Append(headers, "partial") /\ GoOn("write")
        /\ UNCHANGED <<module, clang, ksrc, uml, runner>>
     \/ ~ok /\ Fails

WriteHeader(ok) ==
  /\ step = "write"
  /\ IF ~ok THEN Fails
     ELSE /\ headers' = [headers EXCEPT ![Len(headers)] = "whole"] /\ GoOn("headers")
          /\ UNCHANGED <<module, clang, ksrc, uml, runner>>

\* warn is not defined: the command is not found and "set -e" ends the run.
Warn == GoOn("stopped")

\* [ -x ~/.local/share/uml-veristat/linux ], else build.sh, else a warning.
Uml(ok) ==
  /\ step = "uml"
  /\ \/ uml \in {"linux", "built"} /\ GoOn("runner") /\ UNCHANGED disk
     \/ uml \notin {"linux", "built"} /\ ~module /\ Warn /\ UNCHANGED disk
     \/ uml \notin {"linux", "built"} /\ module /\ ok /\ uml' = "partial" /\ GoOn("build")
        /\ UNCHANGED <<module, clang, ksrc, headers, runner>>
     \/ uml \notin {"linux", "built"} /\ module /\ ~ok /\ Fails

\* build.sh makes the guest kernel first, then veristat and the libraries.
BuildUml(ok) ==
  /\ step = "build"
  /\ IF ~ok THEN Fails
     ELSE /\ IF uml = "partial" THEN uml' = "linux" /\ GoOn("build")
                                ELSE uml' = "built" /\ GoOn("runner")
          /\ UNCHANGED <<module, clang, ksrc, headers, runner>>

\* Only if libbpf.a is there, but then in every run: build_runner.sh compiles, and the
\* linker writes over tools/bpf_runner. A failure is meant to be a warning.
Runner(ok) ==
  /\ step = "runner"
  /\ \/ uml # "built" /\ GoOn("complete") /\ UNCHANGED disk
     \/ uml = "built" /\ ok /\ runner' = "partial" /\ GoOn("link")
        /\ UNCHANGED <<module, clang, ksrc, headers, uml>>
     \/ uml = "built" /\ ~ok /\ Warn /\ UNCHANGED disk

\* A linker that fails removes its output.
Link(ok) ==
  /\ step = "link"
  /\ IF ok THEN runner' = "built" /\ GoOn("complete") ELSE runner' = "none" /\ Warn
  /\ UNCHANGED <<module, clang, ksrc, headers, uml>>

\* The script's own steps.
Work ==
  \E ok \in BOOLEAN :
    \/ Submodules(ok) \/ InstallClang(ok) \/ Fetch(ok) \/ Extract(ok) \/ Clone(ok)
    \/ OpenHeader(ok) \/ WriteHeader(ok)
    \/ Uml(ok) \/ BuildUml(ok) \/ Runner(ok) \/ Link(ok)

Next == Run \/ Interrupt \/ Work

Spec == Init /\ [][Next]_vars
-----------------------------------------------------------------------------
(* "After running this script, you can run pipeline.py": in every run that says  *)
(* "Setup complete!", the first or a later one, the packages, the tree and every *)
(* header are whole, except for what this run already found cut short and its    *)
(* tests took for finished; the runner is built wherever libbpf is.              *)
CompleteButForTorn ==
  step = "complete" =>
    /\ clang = "whole" \/ (clang = "partial" /\ before.clang = "partial")
    /\ ksrc \in {"pinned", "tip"} \/ (ksrc = "late" /\ before.ksrc = "late")
    /\ Len(headers) = NHeaders
    /\ \A n \in 1..NHeaders :
         \/ headers[n] = "whole"
         \/ n <= Len(before.headers) /\ before.headers[n] = "partial"
    /\ uml = "built" => runner = "built"

(* Running the script again, also when it stops half way, undoes nothing that an *)
(* earlier run has finished, except the runner: it is linked anew in place.      *)
NothingUndone ==
  [][ /\ clang = "whole" => clang' = "whole"
      /\ ksrc \in {"pinned", "tip"} => ksrc' = ksrc
      /\ \A n \in 1..Len(headers) :
           n <= Len(headers') /\ (headers[n] = "whole" => headers'[n] = "whole")
      /\ uml = "built" => uml' = "built"
      /\ runner = "built" /\ runner' # "built" => step' = "link" ]_vars

=============================================================================
