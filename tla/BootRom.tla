------------------------------ MODULE BootRom ------------------------------
(***************************************************************************)
(* The boot ROM (software/soc/bootrom.c, with crt0_rom.S) from reset to    *)
(* the first instruction of a program: the test for a program already in   *)
(* RAM, the UART loader against the host that knocks (uartload.py), the SD *)
(* card path, the release of the parked hart, and a trap in what was       *)
(* started.  The host, the serial line and the card are the environment.   *)
(*                                                                         *)
(* Memory is an address space of 2^AddrBits cells; one cell is one byte of *)
(* a UART image and one block of a card image.  The header's four words    *)
(* are one token each, the CRC of a sequence of bytes is the sequence.     *)
(***************************************************************************)
EXTENDS Absence, Integers, Sequences, SequencesExt

CONSTANTS
    AddrBits, RamBase, RamSize, LoadAddr, SdramBase, SdramSize,
    Preloads,    \* what the bitstream may have left in the cell at LoadAddr
    Jobs,        \* [addr, len] of the images a host may upload
    Cards,       \* [magic, blocks] of the cards in the slot; Absent: no card
    Probes,      \* probes the host keeps in flight while it knocks
    CmdTries, OpTries,   \* attempts at CMD0 (10) and at ACMD41 (1000)
    MaxNoise,    \* bytes the line may garble
    MaxResets    \* resets after power-up

ASSUME BootAssumption ==
    /\ AddrBits \in Nat /\ RamBase \in Nat /\ RamSize \in Nat \ {0}
    /\ LoadAddr \in RamBase + 1 .. RamBase + RamSize - 1
    /\ SdramBase \in Nat /\ SdramSize \in Nat
    /\ RamBase + RamSize <= SdramBase /\ SdramBase + SdramSize <= 2 ^ AddrBits

Addrs == 0 .. 2 ^ AddrBits - 1
Ram == RamBase .. RamBase + RamSize - 1
Sdram == SdramBase .. SdramBase + SdramSize - 1
ReleaseCell == RamBase          \* hart_release_addr, first word of the ROM's .bss
Reserved == RamBase .. LoadAddr - 1

Token(k, i) == [k |-> k, i |-> i]
Crc(seq) == [k |-> "crc", of |-> seq]
Void == Token("void", 0)        \* no memory behind the address
Zero == Token("zero", 0)
Ones == Token("ones", 0)
Noise == Token("noise", 0)
Probe == Token("probe", 0)      \* 'U'
SdHeader == Token("sdheader", 0)

VARIABLES
    pc,       \* where hart 0 is in the ROM
    mem,      \* block RAM and SDRAM: kept across a reset
    rx,       \* the UART's one-byte receiver, Absent when LSR.DR is clear
    hdr, got, sum,   \* uartload(): header so far, bytes stored, CRC so far
    tries,    \* sd_init()'s and the copy loop's i
    blocks,   \* from the card's header
    entry, via,      \* what is started, and from where: "ram", "uart", "card"
    mtvec,    \* "reset" or "rom"
    hart1,    \* Absent while it is parked, else what it jumped to
    up, down, \* the line, host to board and board to host
    host, job, seen, \* uartload.py: state, image, bytes acknowledged
    card, noise, resets

rom == <<pc, hdr, got, sum, tries, blocks, entry, via, mtvec>>
line == <<up, down>>
uploader == <<host, job, seen>>
bootVars == <<rom, mem, rx, hart1, line, uploader, card, noise, resets>>

HostTalks == host \in {"knock", "header", "data", "crc"}
Want == [i \in 1 .. job.len |-> Token("img", i)]      \* the payload
Header == << Token("magic", 0), Token("addr", job.addr),
             Token("len", job.len), Crc(Want) >>

BootInit ==
    /\ pc = "crt0" /\ hdr = <<>> /\ got = 0 /\ sum = <<>> /\ tries = 0
    /\ blocks = 0 /\ entry = Absent /\ via = Absent /\ mtvec = "reset"
    /\ \E p \in Preloads : mem = [a \in Addrs |-> IF a = LoadAddr THEN p
                                  ELSE IF a \in Ram \union Sdram THEN Zero ELSE Void]
    /\ rx = Absent /\ hart1 = Absent /\ up = <<>> /\ down = <<>>
    /\ job \in Jobs /\ host \in {"knock", "absent"} /\ seen = 0
    /\ card \in Cards /\ noise = 0 /\ resets = 0

-----------------------------------------------------------------------------
(* The line and the host, uartload.py.                                     *)

(* A byte on its way may be another byte when it arrives.                  *)
Garbled(t) == IF t.k \in {"addr", "len"} THEN {[t EXCEPT !.i = a] : a \in Addrs}
                                         ELSE {Noise}

(* A byte completes on the line: one that finds the receiver full replaces *)
(* the byte software has not read (overrun).                               *)
Deliver ==
    /\ up # <<>>
    /\ up' = Tail(up)
    /\ \/ rx' = Head(up) /\ noise' = noise
       \/ /\ noise < MaxNoise
          /\ noise' = noise + 1
          /\ rx' \in Garbled(Head(up))
    /\ UNCHANGED <<rom, mem, hart1, down, uploader, card, resets>>

(* poke: write if it fits.                                                 *)
HostKnock ==
    /\ host = "knock" /\ Len(up) < Probes
    /\ up' = Append(up, Probe)
    /\ UNCHANGED <<rom, mem, rx, hart1, down, uploader, card, noise, resets>>

(* knock() ignores anything but an ACK; expect_ack() takes nothing else.   *)
HostHears ==
    /\ down # <<>> /\ HostTalks
    /\ LET ack == Head(down) = "ACK"
           next == IF seen < job.len THEN "data" ELSE "crc"
       IN CASE host = "knock" ->
                 /\ host' = IF ack THEN "header" ELSE "knock"
                 /\ up' = IF ack THEN up \o Header ELSE up
                 /\ seen' = 0
            [] ack /\ host \in {"header", "data"} ->
                 /\ host' = next
                 /\ up' = IF seen < job.len THEN Append(up, Want[seen + 1]) ELSE up
                 /\ seen' = IF seen < job.len THEN seen + 1 ELSE seen
            [] ack /\ host = "crc" -> host' = "accepted" /\ UNCHANGED <<up, seen>>
            [] OTHER -> /\ host' = IF Head(down) = "NAK" THEN "rejected" ELSE "unexpected"
                        /\ UNCHANGED <<up, seen>>
    /\ down' = IF host' \in {"knock", "header", "data", "crc"} THEN Tail(down) ELSE <<>>
    /\ UNCHANGED <<rom, mem, rx, hart1, job, card, noise, resets>>

(* The knock's deadline, or no reply within a second.                      *)
HostGivesUp ==
    /\ HostTalks /\ down = <<>>
    /\ host' = "gone"
    /\ UNCHANGED <<rom, mem, rx, hart1, line, job, seen, card, noise, resets>>

-----------------------------------------------------------------------------
(* Hart 0 in the ROM.                                                      *)

(* uart_putc/uart_puts: an acknowledgement, or a line of console text.     *)
(* Nobody reads the line once the host has exited or prints what it reads. *)
Say(bytes) == down' = IF HostTalks THEN down \o bytes ELSE <<>>
Mute == down' = down

Quiet == UNCHANGED <<up, uploader, card, noise, resets>>
Halt(bytes) == pc' = "halt" /\ Say(bytes)          \* print, then for (;;) { }

(* crt0_rom.S for hart 0: zero .bss, which is where hart_release_addr is.  *)
Crt0 ==
    /\ pc = "crt0"
    /\ pc' = "main"
    /\ mem' = [mem EXCEPT ![ReleaseCell] = Zero]
    /\ Mute /\ Quiet
    /\ UNCHANGED <<rx, hdr, got, sum, tries, blocks, entry, via, mtvec, hart1>>

(* The banner, then the first word at PROGRAM_LOAD_ADDR decides.           *)
BootMain ==
    /\ pc = "main"
    /\ IF mem[LoadAddr] \notin {Zero, Ones}
         THEN /\ pc' = "start" /\ entry' = LoadAddr /\ via' = "ram" /\ mtvec' = "rom"
              /\ Say(<<"text", "text">>)
         ELSE /\ pc' = "window" /\ UNCHANGED <<entry, via, mtvec>>
              /\ Say(<<"text">>)
    /\ Quiet
    /\ UNCHANGED <<mem, rx, hdr, got, sum, tries, blocks, hart1>>

(* uart_getc_timeout: a byte, or none before the time is up.               *)
Getc(b) == rx # Absent /\ b = rx /\ rx' = Absent
TimedOutNever == FALSE
TimedOut == rx = Absent /\ rx' = Absent

Knock ==
    /\ pc = "window"
    /\ \/ Getc(Probe) /\ pc' = "skip" /\ Say(<<"ACK">>)
       \/ (TimedOut \/ \E b \in {rx} : Getc(b) /\ b # Probe) /\ pc' = "sdinit" /\ Mute
    /\ hdr' = <<>> /\ got' = 0 /\ sum' = <<>> /\ tries' = 0
    /\ Quiet /\ UNCHANGED <<mem, blocks, entry, via, mtvec, hart1>>

(* uartload_addr_ok, in AddrBits-bit arithmetic.                           *)
AddrOk(addr, len) ==
    LET end == (addr + len) % (2 ^ AddrBits)
    IN  /\ len # 0
        /\ end >= addr
        /\ \/ addr >= RamBase /\ end <= RamBase + RamSize
           \/ addr >= SdramBase /\ end <= SdramBase + SdramSize

(* What a good header is answered with, and nothing before it.             *)
HeaderAnswer == <<"ACK">>

(* The header: further probes are skipped, then each byte with its own     *)
(* time-out and no acknowledgement until the last, which is judged.        *)
TakeHeader ==
    /\ pc \in {"skip", "header"}
    /\ \/ /\ TimedOut /\ Halt(<<"NAK", "text">>) /\ UNCHANGED hdr
       \/ /\ pc = "skip" /\ Getc(Probe) /\ pc' = pc /\ Mute /\ UNCHANGED hdr
       \/ \E b \in {rx} :
            /\ Getc(b) /\ (pc = "skip" => b # Probe)
            /\ hdr' = Append(hdr, b)
            /\ IF Len(hdr') < Len(Header) THEN pc' = "header" /\ Mute
               ELSE IF hdr'[1].k = "magic" /\ hdr'[2].k = "addr" /\ hdr'[3].k = "len"
                       /\ AddrOk(hdr'[2].i, hdr'[3].i)
               THEN pc' = "data" /\ Say(HeaderAnswer)
               ELSE Halt(<<"NAK", "text">>)
    /\ Quiet
    /\ UNCHANGED <<mem, got, sum, tries, blocks, entry, via, mtvec, hart1>>

(* The image, each byte stored and acknowledged.                           *)
TakeByte ==
    /\ pc = "data"
    /\ \/ /\ TimedOut /\ Halt(<<"text">>) /\ UNCHANGED <<mem, got, sum>>
       \/ \E b \in {rx} :
            /\ Getc(b)
            /\ mem' = [mem EXCEPT ![(hdr[2].i + got) % (2 ^ AddrBits)] = b]
            /\ sum' = Append(sum, b)
            /\ got' = got + 1
            /\ pc' = IF got' = hdr[3].i THEN "check" ELSE "data"
            /\ Say(<<"ACK">>)
    /\ Quiet
    /\ UNCHANGED <<hdr, tries, blocks, entry, via, mtvec, hart1>>

CrcMatchesAlways == TRUE
CrcMatches == hdr[4].k = "crc" /\ hdr[4].of = sum

LoadVerdictAlwaysAck(good) == <<"ACK", "text">>
LoadVerdict(good) == <<IF good THEN "ACK" ELSE "NAK", "text">>

CheckCrc ==
    /\ pc = "check"
    /\ IF CrcMatches
         THEN /\ pc' = "start" /\ Say(LoadVerdict(TRUE))
              /\ entry' = hdr[2].i /\ via' = "uart" /\ mtvec' = "rom"
         ELSE Halt(LoadVerdict(FALSE)) /\ UNCHANGED <<entry, via, mtvec>>
    /\ Quiet
    /\ UNCHANGED <<mem, rx, hdr, got, sum, tries, blocks, hart1>>

(* The SD path.  A command's reply is what the poll of sd_cmd returns:     *)
(* "FF" is sixteen polls without an answer, which any command may meet.    *)
Reply(good, other) == IF card = Absent THEN {"FF"} ELSE {good, "FF"} \union other

Again(n) == tries + 1 < n      \* the loop's next round

(* One state of sd_init, tried up to n times: r = good goes on to next.    *)
Try(state, replies, good, n, next) ==
    /\ pc = state
    /\ \E r \in replies :
         \/ r = good /\ pc' = next /\ tries' = 0 /\ Mute
         \/ r # good /\ Again(n) /\ pc' = pc /\ tries' = tries + 1 /\ Mute
         \/ r # good /\ ~Again(n) /\ Halt(<<"text">>) /\ tries' = tries
    /\ Quiet
    /\ UNCHANGED <<mem, rx, hdr, got, sum, blocks, entry, via, mtvec, hart1>>

SdGoIdle == Try("sdinit", Reply("01", {"04"}), "01", CmdTries, "cmd8")
SdIfCond == Try("cmd8", Reply("01", {"04"}), "01", 1, "acmd41")
SdOpCond == Try("acmd41", Reply("00", {"01"}), "00", OpTries, "cmd58")
SdReadOcr == Try("cmd58", Reply("00", {}), "00", 1, "sdheader")

(* sd_read_block into a cell: no reply, no token in time or an error token *)
(* leave the cell as it was.                                               *)
ReadBlock(a, data, next) ==
    \/ pc' = next /\ mem' = [mem EXCEPT ![a] = data] /\ Mute
    \/ Halt(<<"text">>) /\ UNCHANGED mem

(* Block 0 lands where the program will, and is taken apart there.         *)
SdReadHeader ==
    /\ pc = "sdheader"
    /\ \/ card.magic /\ ReadBlock(LoadAddr, SdHeader, "blocks") /\ blocks' = card.blocks
       \/ ~card.magic /\ mem' = [mem EXCEPT ![LoadAddr] = Noise] /\ Halt(<<"text">>)
                      /\ UNCHANGED blocks
       \/ Halt(<<"text">>) /\ UNCHANGED <<mem, blocks>>
    /\ tries' = 0
    /\ Quiet /\ UNCHANGED <<rx, hdr, got, sum, entry, via, mtvec, hart1>>

SdReadBlocks ==
    /\ pc = "blocks" /\ tries < blocks
    /\ ReadBlock(LoadAddr + tries, Token("block", tries), "blocks")
    /\ tries' = tries + 1
    /\ Quiet /\ UNCHANGED <<rx, hdr, got, sum, blocks, entry, via, mtvec, hart1>>

SdLoaded ==
    /\ pc = "blocks" /\ tries = blocks
    /\ pc' = "start" /\ Say(<<"text">>)
    /\ entry' = LoadAddr /\ via' = "card"
    /\ Quiet /\ UNCHANGED <<mem, rx, hdr, got, sum, tries, blocks, mtvec, hart1>>

(* hart_release_addr = entry, then the call.                               *)
Start ==
    /\ pc = "start"
    /\ pc' = "run"
    /\ mem' = [mem EXCEPT ![ReleaseCell] = Token("entry", entry)]
    /\ Mute /\ Quiet
    /\ UNCHANGED <<rx, hdr, got, sum, tries, blocks, entry, via, mtvec, hart1>>

(* The started program faults before it has a handler of its own: to the   *)
(* ROM's report, or to the reset vector, which is where an unset mtvec is. *)
TrapInProgram ==
    /\ pc = "run"
    /\ \/ mtvec = "rom" /\ pc' = "report" /\ Say(<<"text">>)
       \/ mtvec = "reset" /\ pc' = "crt0" /\ Mute
    /\ Quiet
    /\ UNCHANGED <<mem, rx, hdr, got, sum, tries, blocks, entry, via, mtvec, hart1>>

-----------------------------------------------------------------------------
(* park_hart: spin on the release word, jump to what it holds.             *)
Hart1 ==
    /\ hart1 = Absent /\ mem[ReleaseCell] # Zero
    /\ hart1' = mem[ReleaseCell]
    /\ UNCHANGED <<rom, mem, rx, line, uploader, card, noise, resets>>

(* Reset: registers and the UART start again, memory keeps its contents    *)
(* (wb_ram.v clears only its acknowledge).  Not while a program runs: what *)
(* it has made of its own image by then is its affair.                     *)
Reset ==
    /\ resets < MaxResets /\ pc # "run" /\ pc # "report"
    /\ resets' = resets + 1
    /\ pc' = "crt0" /\ mtvec' = "reset" /\ hart1' = Absent /\ rx' = Absent
    /\ entry' = Absent /\ via' = Absent /\ hdr' = <<>> /\ got' = 0 /\ sum' = <<>>
    /\ tries' = 0 /\ blocks' = 0
    /\ UNCHANGED <<mem, line, uploader, card, noise>>

Sd == SdGoIdle \/ SdIfCond \/ SdOpCond \/ SdReadOcr \/ SdReadHeader
        \/ SdReadBlocks \/ SdLoaded
Rom == Crt0 \/ BootMain \/ Knock \/ TakeHeader \/ TakeByte \/ CheckCrc \/ Sd \/ Start
BootNext == Rom \/ TrapInProgram \/ Hart1 \/ Reset
          \/ Deliver \/ HostKnock \/ HostHears \/ HostGivesUp

BootSpec == BootInit /\ [][BootNext]_bootVars
(* The hart runs and a host that talks reads its port; neither the line,   *)
(* nor the host's sending, nor the card is owed anything.                  *)
BootFairSpec == BootSpec /\ WF_bootVars(Rom) /\ WF_bootVars(HostHears) /\ WF_bootVars(Hart1)
-----------------------------------------------------------------------------
(* Properties.                                                             *)

BootTypeOK ==
    /\ pc \in {"crt0", "main", "window", "skip", "header", "data", "check", "sdinit",
               "cmd8", "acmd41", "cmd58", "sdheader", "blocks", "start", "run",
               "report", "halt"}
    /\ rx = Absent \/ rx.k \in {"probe", "img", "magic", "addr", "len", "crc", "noise"}
    /\ Len(hdr) <= Len(Header) /\ got = Len(sum)
    /\ pc = "sdinit" => tries < CmdTries
    /\ pc = "acmd41" => tries < OpTries
    /\ pc = "blocks" => tries <= blocks
    /\ entry \in Addrs \union {Absent} /\ via \in {Absent, "ram", "uart", "card"}
    /\ mtvec \in {"reset", "rom"}
    /\ \A i \in 1 .. Len(down) : down[i] \in {"ACK", "NAK", "text"}

(* An image is in memory from a on, as preloaded, as the host sent it or   *)
(* as the card holds it.                                                   *)
WholeAt(a) ==
    \/ a = LoadAddr /\ mem[a] = Token("program", 0)
    \/ \A i \in 0 .. job.len - 1 : mem[(a + i) % (2 ^ AddrBits)] = Want[i + 1]
    \/ card # Absent /\ \A i \in 0 .. card.blocks - 1 : mem[a + i] = Token("block", i)

(* What hart 0 jumps to is a whole image (bootrom.c:467 and 583: the CRC,  *)
(* every block read), wherever it came from.  An image the loader lets     *)
(* into the ROM's own page is excepted (starting it overwrites its first   *)
(* word with the release word), and so is what a warm reset finds in RAM: *)
(* a load that the reset cut short leaves a part of an image there, which  *)
(* the ROM takes for one that was preloaded (bootrom.c:497).               *)
StartedIsWhole ==
    pc = "run" /\ entry \notin Reserved /\ (via = "ram" => resets = 0) => WholeAt(entry)

(* A load touches memory only: no cell of a device or of nothing is        *)
(* written, whatever address and length the header names (bootrom.c:309).  *)
LoadsStayInMemory == \A a \in Addrs \ (Ram \union Sdram) : mem[a] = Void

(* The uploader's "accepted; the board is running it" is true: hart 0 is   *)
(* past the check, on its way into the image, unless the board was reset.  *)
AcceptedIsStarted ==
    host = "accepted" /\ resets = 0 => via = "uart" /\ pc \in {"start", "run", "report"}

(* The uploader meets console text where it wants an answer only when the  *)
(* image stopped half way, the one failure that sends no NAK               *)
(* (bootrom.c:428); every other one is refused before it is explained.     *)
(* (A reset prints the banner at a host in the middle of a transfer.)      *)
AnswersFirst ==
    host = "unexpected" /\ resets = 0 =>
        pc = "halt" /\ Len(hdr) = Len(Header) /\ got < hdr[3].i

(* The parked hart leaves for the program hart 0 starts and for nothing    *)
(* else (bootrom.c:38); a load into the ROM's page, which holds the release *)
(* word, is again the exception, and after a warm reset so is the release  *)
(* word of the boot before, until crt0 has cleared it.                     *)
ParkedUntilStarted ==
    hart1 # Absent =>
        \/ entry # Absent /\ hart1 = Token("entry", entry)
        \/ Len(hdr) = Len(Header) /\ hdr[2].i \in Reserved
        \/ resets > 0

(* What is loaded is sound: whole when it is started, in memory alone, and *)
(* entered by both harts and not before.                                   *)
LoadsAreSound ==
    BootTypeOK /\ StartedIsWhole /\ LoadsStayInMemory /\ ParkedUntilStarted

(* What the uploader reports of the board is so: "accepted" only of an     *)
(* image that is started, an answer before any text that explains it.      *)
HostIsToldTheTruth == AcceptedIsStarted /\ AnswersFirst

(* Every wait in the ROM is bounded: whatever the line, the host and the   *)
(* card do or fail to do, hart 0 ends in a program or in a printed failure.*)
BootEnds == <>[](pc \in {"run", "report", "halt"})
=============================================================================
