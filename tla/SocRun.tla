------------------------------- MODULE SocRun -------------------------------
(***************************************************************************)
(* The main loop of the simulation harness (sim/verilator_soc.cpp): what   *)
(* one run of the SoC records while it lasts - traps, the watched pc, the  *)
(* last control transfers, the verdict word and the console marker - when  *)
(* it ends, and what it says then.  The core is the environment: in each   *)
(* cycle it may retire an instruction, raise the trap pulse, or stall.     *)
(***************************************************************************)
EXTENDS Absence, Integers, Sequences, SequencesExt

CONSTANTS
    Options,      \* command lines: [trace, watch, last, skew, stop]
    Flow,         \* pc -> the pcs that may retire next
    Causes,
    MaxCycles,    \* +maxcycles
    Drain,        \* +drain
    Ring,         \* BRANCH_RING
    MaxTraps      \* traps the core takes

ASSUME RunAssumption ==
    /\ MaxCycles \in Nat \ {0} /\ Drain \in Nat /\ Ring \in Nat \ {0}
    /\ MaxTraps \in Nat

VARIABLES
    opt,
    retpc, retired,      \* the instruction that retired last; did one, this cycle
    pulse,            \* the trap taken this cycle: [to, cause], or Absent
    csr,              \* [m, s]: what mcause and scause hold
    word,             \* RAM word 0: the verdict word, before it the release word
    marker,           \* uart_stop_hit
    cycles,
    traps, first_trap, capture, first_cause,
    pending,          \* tt_pending with its record, or Absent
    log,              \* the lines of the +traptrace file
    arm, hit, watch_cycle, count,
    ring, branch_n, prev_pc,
    verdict_at, stop_at,
    said,             \* the last line of the report, Absent while running
    trapsTaken, visits, transfers, verdicts   \* what really happened

core == <<retpc, retired, pulse, csr, word, marker>>
trapping == <<traps, first_trap, capture, first_cause, pending, log>>
watching == <<arm, hit, watch_cycle, count>>
branching == <<ring, branch_n, prev_pc>>
happened == <<trapsTaken, visits, transfers, verdicts>>
runVars == <<opt, core, cycles, trapping, watching, branching, verdict_at, stop_at,
          said, happened>>

Pcs == DOMAIN Flow
Verdicts == {"PASS", "FAIL"}
Ended == said # Absent

RunInit ==
    /\ opt \in Options
    /\ retpc = 0 /\ retired = FALSE /\ pulse = Absent
    /\ csr = [m |-> Absent, s |-> Absent] /\ word = Absent /\ marker = FALSE
    /\ cycles = 0
    /\ traps = 0 /\ first_trap = Absent /\ capture = FALSE /\ first_cause = Absent
    /\ pending = Absent /\ log = <<>>
    /\ arm = -1 /\ hit = FALSE /\ watch_cycle = Absent /\ count = 0
    /\ ring = [i \in 0 .. Ring - 1 |-> <<0, 0>>] /\ branch_n = 0 /\ prev_pc = 0
    /\ verdict_at = Absent /\ stop_at = Absent /\ said = Absent
    /\ trapsTaken = <<>> /\ visits = <<>> /\ transfers = <<>> /\ verdicts = <<>>

-----------------------------------------------------------------------------
(* The core.  A trap's CSRs are written by the edge after its pulse, and   *)
(* nothing retires between the two; software may write the same CSRs.      *)

Written == IF pulse = Absent THEN csr
           ELSE IF pulse.to = "S" THEN [csr EXCEPT !.s = pulse.cause]
           ELSE [csr EXCEPT !.m = pulse.cause]

Stalls == retired' = FALSE /\ pulse' = Absent /\ csr' = Written /\ UNCHANGED <<retpc, word>>

Retires ==
    /\ retired' = TRUE /\ pulse' = Absent
    /\ retpc' \in Flow[retpc]
    /\ csr' = Written
    /\ word' = word

(* mepc before an mret, mcause read and cleared.                           *)
WritesCsr ==
    /\ pulse = Absent /\ opt.trace
    /\ retired' = TRUE /\ pulse' = Absent /\ retpc' \in Flow[retpc]
    /\ \E r \in {"m", "s"} : csr' = [csr EXCEPT ![r] = Absent]
    /\ word' = word

Traps ==
    /\ opt.trace /\ traps < MaxTraps
    /\ \E to \in {"M", "S"}, c \in Causes : pulse' = [to |-> to, cause |-> c]
    /\ retired' = FALSE /\ csr' = Written /\ UNCHANGED <<retpc, word>>

(* The ROM's release word comes first, then one verdict, the last store.   *)
Concludes ==
    /\ pulse = Absent /\ word \notin Verdicts
    /\ word' \in IF word = Absent THEN {"release"} \union Verdicts ELSE Verdicts
    /\ retired' = TRUE /\ pulse' = Absent /\ retpc' \in Flow[retpc]
    /\ UNCHANGED csr

Core == Stalls \/ Retires \/ WritesCsr \/ Traps \/ Concludes
Console == marker' \in IF opt.stop THEN {marker, TRUE} ELSE {FALSE}

-----------------------------------------------------------------------------
(* The probes, after the eval() of this cycle.                             *)

(* The CSRs of a trap are read one cycle after its pulse.                  *)
FirstTrap ==
    /\ first_cause' = IF capture THEN csr' ELSE first_cause
    /\ capture' = (pulse' # Absent /\ first_trap = Absent)
    /\ first_trap' = IF capture' THEN cycles' ELSE first_trap
    /\ traps' = IF pulse' # Absent THEN traps + 1 ELSE traps

LogLine(p, c) == [cycle |-> p.cycle, to |-> p.to, csr |-> c]
Slot == IF pulse' # Absent /\ opt.trace THEN [cycle |-> cycles', to |-> pulse'.to] ELSE pending

(* The slot is flushed before a new trap takes it.                         *)
TrapTrace ==
    /\ pending' = IF pulse' # Absent /\ opt.trace THEN Slot ELSE Absent
    /\ log' = IF pending # Absent THEN Append(log, LogLine(pending, csr')) ELSE log

Seen == retired' /\ retpc' = opt.watch /\ (opt.last \/ ~hit)
Watch ==
    LET armed == IF Seen THEN opt.skew ELSE arm
    IN /\ arm' = IF armed >= 0 THEN armed - 1 ELSE armed
       /\ hit' = (hit \/ armed = 0)
       /\ watch_cycle' = IF armed = 0 THEN cycles' ELSE watch_cycle
       /\ count' = IF Seen THEN count + 1 ELSE count

(* A repeat of the transfer recorded last is not recorded again.           *)
Transfer == retired' /\ retpc' # prev_pc + 4 /\ retpc' # prev_pc
RepeatOfFirst == branch_n > 0 /\ ring[0] = <<prev_pc, retpc'>>
Repeat == branch_n > 0 /\ ring[(branch_n - 1) % Ring] = <<prev_pc, retpc'>>
Branches ==
    /\ IF Transfer /\ ~Repeat
       THEN /\ ring' = [ring EXCEPT ![branch_n % Ring] = <<prev_pc, retpc'>>]
            /\ branch_n' = branch_n + 1
       ELSE UNCHANGED <<ring, branch_n>>
    /\ prev_pc' = IF retired' THEN retpc' ELSE prev_pc

(* verdict_at and stop_at are set once.                                    *)
Verdict ==
    /\ verdict_at' = IF verdict_at = Absent /\ word' \in Verdicts THEN cycles' ELSE verdict_at
    /\ stop_at' = IF stop_at = Absent /\ marker' THEN cycles' ELSE stop_at

Report == CASE word' = "PASS" -> "passed"
            [] word' = "FAIL" -> "failed"
            [] marker' -> "stopped"
            [] OTHER -> "timed out"

Drained(at) == at # Absent /\ cycles' >= at + Drain
Over == Drained(verdict_at') \/ Drained(stop_at') \/ cycles' >= MaxCycles

-----------------------------------------------------------------------------
(* What really happened: traps, visits of the watched pc, and the control  *)
(* transfers with runs of one transfer taken as one.                       *)
Remember ==
    /\ trapsTaken' = IF pulse' # Absent
                THEN Append(trapsTaken, [cycle |-> cycles', to |-> pulse'.to, cause |-> pulse'.cause])
                ELSE trapsTaken
    /\ visits' = IF retired' /\ retpc' = opt.watch THEN Append(visits, cycles') ELSE visits
    /\ transfers' = IF /\ retired' /\ retpc' \notin {retpc, retpc + 4}
                       /\ (transfers = <<>> \/ Last(transfers) # <<retpc, retpc'>>)
                    THEN Append(transfers, <<retpc, retpc'>>) ELSE transfers
    /\ verdicts' = IF word' \in Verdicts \ {word} THEN Append(verdicts, word') ELSE verdicts

RunCycle ==
    /\ ~Ended
    /\ cycles' = cycles + 1
    /\ Core /\ Console
    /\ FirstTrap /\ TrapTrace /\ Watch /\ Branches /\ Verdict
    /\ said' = IF Over THEN Report ELSE Absent
    /\ Remember
    /\ opt' = opt

RunNext == RunCycle
RunSpec == RunInit /\ [][RunNext]_runVars

-----------------------------------------------------------------------------
RunTypeOK ==
    /\ cycles \in 0 .. MaxCycles /\ retpc \in Pcs /\ prev_pc \in Pcs
    /\ traps \in 0 .. MaxTraps /\ first_trap \in 1 .. MaxCycles \union {Absent}
    /\ arm \in -1 .. MaxCycles /\ count \in 0 .. MaxCycles
    /\ \A i \in 0 .. Ring - 1 : ring[i] \in Pcs \X Pcs
    /\ said \in {Absent, "passed", "failed", "stopped", "timed out"}

(* One line for each trap, in order, each with its own CSRs; at most the   *)
(* last is still pending, which the end of the run writes as unread.       *)
LinesAreTraps ==
    opt.trace =>
    /\ Len(log) = Len(trapsTaken) - (IF pending = Absent THEN 0 ELSE 1)
    /\ \A i \in DOMAIN log : /\ log[i].cycle = trapsTaken[i].cycle /\ log[i].to = trapsTaken[i].to
                             /\ (IF log[i].to = "S" THEN log[i].csr.s ELSE log[i].csr.m)
                                   = trapsTaken[i].cause
    /\ pending # Absent => pending = [cycle |-> Last(trapsTaken).cycle, to |-> Last(trapsTaken).to]

(* The trap reported as the first is the first, and a trap to M shows its  *)
(* own cause once the capture has been made.                               *)
FirstTrapIsFirst ==
    /\ first_trap # Absent => first_trap = trapsTaken[1].cycle
    /\ first_trap # Absent /\ ~capture /\ trapsTaken[1].to = "M" => first_cause.m = trapsTaken[1].cause

(* The ring holds the last transfers, a run of one transfer taken as one,  *)
(* oldest first from branch_n.                                             *)
RingIsTheEnd ==
    LET n == Len(transfers)
        held == IF n < Ring THEN n ELSE Ring
    IN /\ branch_n = n
       /\ \A i \in 1 .. held : ring[(branch_n - i) % Ring] = transfers[n - i + 1]

(* The registers shown are those `skew' cycles after a visit, and with     *)
(* +watchlast after the last that had so many cycles left.                 *)
WatchIsOfVisit ==
    hit => /\ \E i \in DOMAIN visits : watch_cycle = visits[i] + opt.skew
           /\ opt.last /\ Last(visits) + opt.skew <= cycles
                 => watch_cycle = Last(visits) + opt.skew

(* The last line tells what the program concluded, and says that the run   *)
(* timed out only when neither a verdict nor the marker came.              *)
VerdictIsTold ==
    Ended => /\ said = "passed" <=> verdicts = <<"PASS">>
             /\ said = "failed" <=> verdicts = <<"FAIL">>
             /\ said = "timed out" => verdicts = <<>> /\ ~marker /\ cycles = MaxCycles

(* What the harness says of a run is what happened in it: the traps, the   *)
(* last transfers, the registers of the watched instruction, the end.      *)
ReportIsTrue ==
    /\ RunTypeOK /\ LinesAreTraps /\ FirstTrapIsFirst
    /\ RingIsTheEnd /\ WatchIsOfVisit
    /\ VerdictIsTold
=============================================================================
