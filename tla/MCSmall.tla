------------------------------ MODULE MCSmall ------------------------------
(***************************************************************************)
(* The specifications that are small next to the fabrics' and the page     *)
(* walkers', side by side: the boot ROM, the memory tests, the simulation  *)
(* harness, the interrupt programs, and the ageing of the packet router.   *)
(* They share nothing; a behaviour is of one of them, chosen in its first  *)
(* state, and the others stay in one initial state of theirs.              *)
(***************************************************************************)
EXTENDS MCBootRom, MCMemTests, MCSocRun, MCIrqRun, MCNocRouterAge

VARIABLE of     \* which of the five this behaviour is of

Boots == of = "boot"
Tests == of = "memory"
Simulates == of = "harness"
Serves == of = "interrupts"
Ages == of = "ageing"

smallVars == <<bootVars, memVars, runVars, irqVars, ageVars, of>>

SmallInit ==
  /\ of \in {"boot", "memory", "harness", "interrupts", "ageing"}
  /\ Boots \/ (job = Job(9, 2) /\ host = "absent" /\ card = Absent)
  /\ Tests \/ (test = "sdramtest" /\ fault = Healthy)
  /\ Simulates \/ opt = Command(FALSE, 24, FALSE, FALSE)
  /\ Serves \/ (prog = "uarttest" /\ passTime = 0)
  /\ BootInit /\ MemInit /\ RunInit /\ IrqInit /\ AgeInit
  /\ Boots \/ mem[LoadAddr] = Zero
  /\ host = "absent" => job = Job(9, 2)          \* who is away has no image
  /\ mem[LoadAddr] = Ones => host = "absent"     \* as Zero, for the card
  /\ Tests \/ cells = Contents("sdramtest", 0)

SmallNext ==
  \/ Boots /\ BootNext /\ UNCHANGED <<memVars, runVars, irqVars, ageVars, of>>
  \/ Tests /\ MemNext /\ UNCHANGED <<bootVars, runVars, irqVars, ageVars, of>>
  \/ Simulates /\ RunNext /\ UNCHANGED <<bootVars, memVars, irqVars, ageVars, of>>
  \/ Serves /\ IrqNext /\ UNCHANGED <<bootVars, memVars, runVars, ageVars, of>>
  \/ Ages /\ AgeNext /\ UNCHANGED <<bootVars, memVars, runVars, irqVars, of>>

(* Each with the fairness it is given on its own.                           *)
SmallSpec ==
  /\ SmallInit /\ [][SmallNext]_smallVars
  /\ WF_bootVars(Boots /\ Rom) /\ WF_bootVars(Boots /\ HostHears)
  /\ WF_bootVars(Boots /\ Hart1)
  /\ WF_irqVars(Serves /\ IrqNext)
-----------------------------------------------------------------------------
(* The liveness properties, of the behaviours they are about.               *)
BootsEnd == Boots => BootEnds
ServedProgramsPass == Serves => ProgramsPass
=============================================================================
