----------------------------- MODULE Injection -----------------------------
(***************************************************************************)
(* injectWithTracer of src/pkg/inject: while one thread of the target is   *)
(* held by ptrace, find a free page near the vDSO, make the target mmap    *)
(* it, write the stubs into it, and overwrite the entry of each of the     *)
(* three clock functions with a jump to its stub.                          *)
(*                                                                         *)
(* Addresses are scaled down: Window stands for 2^31, both the radius of   *)
(* the search and the reach of a JMP rel32, JmpLen for its 5 bytes.        *)
(***************************************************************************)
EXTENDS Integers

CONSTANTS
    PageSize, Window, JmpLen,
    NPages,          \* size of the address space
    Layouts,         \* where the vDSO may put its functions: Hook -> address
    Targets,         \* what the target is like, see Target
    MaxInjections,   \* bound: injections into the process
    MaxMaps,         \* bound: pages the target itself maps
    MaxFaults        \* bound: steps of an injection that fail

Hook == {"clock_gettime", "gettimeofday", "time"}

\* The order in which the entries are overwritten.
Hooks == <<"clock_gettime", "gettimeofday", "time">>

Target == [threads : BOOLEAN,    \* it has threads that ptrace does not hold
           brittle : BOOLEAN]    \* reading or overwriting a vDSO entry may fail

Page == 0 .. NPages - 1
Top == NPages * PageSize
Addr == 0 .. Top - 1

ASSUME SizeAssumption ==
    /\ {PageSize, Window, JmpLen, NPages} \subseteq Nat \ {0}
    /\ Layouts \subseteq [Hook -> Addr]
    /\ Targets \subseteq Target
    /\ Window % PageSize = 0

\* User space ends far below the top, where Hi would wrap, and no vDSO starts at
\* the one address for which the window starts at page 0.
ASSUME SpaceAssumption ==
    \A l \in Layouts : l["clock_gettime"] + Window < Top /\ l["clock_gettime"] # Window

VARIABLES
    target,    \* what the target is like
    layout,    \* info: the addresses of the vDSO's functions
    owner,     \* what every page holds: nothing, the program, the vDSO, or stubs
    jump,      \* the page each entry jumps to, as an address; 0 for the vDSO's own code
    scratch,   \* the entry of clock_gettime holds syscall; int3
    inj,       \* local state of injectWithTracer and remoteMmap
    written,   \* pages that hold a whole payload
    lost,      \* history: pages of the program that were mapped over
    used       \* how much of the bounds is used up

vars == <<target, layout, owner, jump, scratch, inj, written, lost, used>>

Injecting == [pc : {"rest", "gap", "poke", "noreplace", "fixed", "restore", "undo", "payload", "patch"},
              ok : BOOLEAN,      \* a handle was returned
              gap : Addr,        \* fixedAddr, then newPage; 0 for none
              i : 1 .. 3,        \* the entry to be overwritten next
              orig : BOOLEAN,    \* origBytes are those of an earlier syscall; int3
              line : 0 .. NPages,   \* the page from which findNearbyGap reads on
              prev : 0 .. Top]      \* the end of the last line it has read

TypeOK ==
    /\ target \in Targets
    /\ layout \in Layouts
    /\ owner \in [Page -> {"free", "app", "vdso", "stubs"}]
    /\ jump \in [Hook -> Addr]
    /\ scratch \in BOOLEAN
    /\ inj \in Injecting
    /\ written \subseteq Page
    /\ lost \subseteq Page
    /\ used \in [injections : Nat, maps : Nat, faults : Nat]

PageOf(a) == a \div PageSize

\* A process that was not injected yet, whatever it has mapped.
Init ==
    /\ target \in Targets
    /\ layout \in Layouts
    /\ owner \in {o \in [Page -> {"free", "app", "vdso"}] :
                     \A p \in Page : o[p] = "vdso" <=> \E h \in Hook : PageOf(layout[h]) = p}
    /\ jump = [h \in Hook |-> 0]
    /\ scratch = FALSE
    /\ inj = [pc |-> "rest", ok |-> FALSE, gap |-> 0, i |-> 1, orig |-> FALSE, line |-> 0, prev |-> 0]
    /\ written = {}
    /\ lost = {}
    /\ used = [injections |-> 0, maps |-> 0, faults |-> 0]

Fault == used.faults < MaxFaults /\ used' = [used EXCEPT !.faults = @ + 1]

\* A held process maps nothing, unless it has other threads.
AppMap(p) ==
    /\ target.threads \/ inj.pc = "rest"
    /\ owner[p] = "free"
    /\ used.maps < MaxMaps
    /\ owner' = [owner EXCEPT ![p] = "app"]
    /\ used' = [used EXCEPT !.maps = @ + 1]
    /\ UNCHANGED <<target, layout, written, jump, scratch, inj, lost>>

(***************************************************************************)
(* findNearbyGap.                                                          *)
(***************************************************************************)
Failed == [inj EXCEPT !.pc = "rest", !.ok = FALSE, !.line = 0, !.prev = 0]

Goto(l) == inj' = [inj EXCEPT !.pc = l]

\* The address that the search starts from.
Near == layout["clock_gettime"]

Larger(a, b) == IF a > b THEN a ELSE b
Smaller(a, b) == IF a < b THEN a ELSE b

\* Mutant: the window starts a page too low.
LoTooLow(near) == IF Window + PageSize > near THEN PageSize ELSE near - Window - PageSize

\* The ends of the window, clamped where the unsigned arithmetic wraps.
Lo(near) == IF Window > near THEN PageSize ELSE near - Window
Hi(near) == IF near + Window >= Top THEN Top - 1 - PageSize ELSE near + Window

\* Mutant: rounds down.
AlignDown(a) == (a \div PageSize) * PageSize

AlignUp(a) == ((a + PageSize - 1) \div PageSize) * PageSize

\* The page of the next line of /proc/<pid>/maps, which has a line per page in
\* use, in the order of their addresses.  Other threads may map pages in between.
IsLine(p) ==
    /\ p >= inj.line
    /\ owner[p] # "free"
    /\ \A q \in Page : q >= inj.line /\ q < p => owner[q] = "free"

Start(p) == p * PageSize
End(p)   == p * PageSize + PageSize

\* Where a gap that ends behind prev may begin.
GapStart == AlignUp(Larger(inj.prev, Lo(Near)))

Found(g) == inj' = [inj EXCEPT !.pc = "poke", !.gap = g, !.line = 0, !.prev = 0]

\* A line below the window.
SkipLine(p) ==
    /\ inj.pc = "gap" /\ IsLine(p)
    /\ End(p) <= Lo(Near)
    /\ inj' = [inj EXCEPT !.line = p + 1, !.prev = End(p)]
    /\ UNCHANGED <<target, layout, written, owner, jump, scratch, lost, used>>

\* Mutant of ReadLine: the end of a span is forgotten when no gap was found before it.
ReadLineForgets(p) ==
    /\ inj.pc = "gap" /\ IsLine(p)
    /\ End(p) > Lo(Near) /\ Start(p) < Hi(Near)
    /\ IF GapStart + PageSize <= Smaller(Start(p), Hi(Near))
       THEN Found(GapStart)
       ELSE inj' = [inj EXCEPT !.line = p + 1]
    /\ UNCHANGED <<target, layout, written, owner, jump, scratch, lost, used>>

\* A line in the window: is there a gap between the last line and this one?
ReadLine(p) ==
    /\ inj.pc = "gap" /\ IsLine(p)
    /\ End(p) > Lo(Near) /\ Start(p) < Hi(Near)
    /\ IF GapStart + PageSize <= Smaller(Start(p), Hi(Near))
       THEN Found(GapStart)
       ELSE inj' = [inj EXCEPT !.line = p + 1, !.prev = Larger(@, End(p))]
    /\ UNCHANGED <<target, layout, written, owner, jump, scratch, lost, used>>

\* No more lines, or one above the window: the gap after the last one.
ScanEnd ==
    /\ inj.pc = "gap"
    /\ \/ \A p \in Page : p >= inj.line => owner[p] = "free"
       \/ \E p \in Page : IsLine(p) /\ End(p) > Lo(Near) /\ Start(p) >= Hi(Near)
    /\ IF GapStart >= Lo(Near) /\ GapStart + PageSize <= Hi(Near)
       THEN Found(GapStart)
       ELSE inj' = Failed
    /\ UNCHANGED <<target, layout, written, owner, jump, scratch, lost, used>>

FindNearbyGap == (\E p \in Page : SkipLine(p) \/ ReadLine(p)) \/ ScanEnd

(***************************************************************************)
(* injectWithTracer.                                                       *)
(***************************************************************************)
\* The thread is held and vdso.Locate has found the functions.
Begin ==
    /\ inj.pc = "rest"
    /\ used.injections < MaxInjections
    /\ used' = [used EXCEPT !.injections = @ + 1]
    /\ inj' = [pc |-> "gap", ok |-> FALSE, gap |-> 0, i |-> 1, orig |-> FALSE,
                line |-> 0, prev |-> Lo(Near)]
    /\ UNCHANGED <<target, layout, written, owner, jump, scratch, lost>>

(***************************************************************************)
(* remoteMmap.                                                             *)
(***************************************************************************)
\* The entry is read, then overwritten.
Poke ==
    /\ inj.pc = "poke"
    /\ scratch' = TRUE
    /\ inj' = [inj EXCEPT !.pc = "noreplace", !.orig = scratch]
    /\ UNCHANGED <<target, layout, written, owner, jump, lost, used>>

\* The registers or the entry cannot be read, or the entry cannot be written.
PokeErr ==
    /\ inj.pc = "poke"
    /\ Fault
    /\ inj' = Failed
    /\ UNCHANGED <<target, layout, written, owner, jump, scratch, lost>>

\* EEXIST, or EBADF where the kernel has no MAP_FIXED_NOREPLACE: try MAP_FIXED.
MmapNoReplace ==
    /\ inj.pc = "noreplace"
    /\ \/ /\ owner[PageOf(inj.gap)] = "free"
          /\ owner' = [owner EXCEPT ![PageOf(inj.gap)] = "stubs"]
          /\ Goto("restore")
          /\ UNCHANGED used
       \/ /\ owner[PageOf(inj.gap)] # "free"
          /\ Goto("fixed")
          /\ UNCHANGED <<owner, used>>
       \/ /\ owner[PageOf(inj.gap)] = "free"
          /\ Fault
          /\ Goto("fixed")
          /\ UNCHANGED owner
    /\ UNCHANGED <<target, layout, written, jump, scratch, lost>>

MmapFixed ==
    /\ inj.pc = "fixed"
    /\ owner' = [owner EXCEPT ![PageOf(inj.gap)] = "stubs"]
    /\ lost' = lost \union (IF owner[PageOf(inj.gap)] = "free" THEN {} ELSE {PageOf(inj.gap)})
    /\ written' = written \ {PageOf(inj.gap)}
    /\ Goto("restore")
    /\ UNCHANGED <<target, layout, jump, scratch, used>>

\* Another errno, a signal that stops the target before or after the mmap, or
\* registers that cannot be read or set: the page may be mapped already.
MmapErr ==
    /\ inj.pc \in {"noreplace", "fixed", "restore"}
    /\ Fault
    /\ Goto("undo")
    /\ UNCHANGED <<target, layout, written, owner, jump, scratch, lost>>

\* Original bytes and registers.
Restore ==
    /\ inj.pc = "restore"
    /\ scratch' = inj.orig
    /\ Goto("payload")
    /\ UNCHANGED <<target, layout, written, owner, jump, lost, used>>

\* Mutant: only the successful path restores.
UndoNothing ==
    /\ inj.pc = "undo"
    /\ inj' = Failed
    /\ UNCHANGED <<target, layout, written, owner, jump, scratch, lost, used>>

\* The deferred restore of every failing path.  Its own failure goes unnoticed.
Undo ==
    /\ inj.pc = "undo"
    /\ \/ scratch' = inj.orig /\ UNCHANGED used
       \/ target.brittle /\ Fault /\ UNCHANGED scratch
    /\ inj' = Failed
    /\ UNCHANGED <<target, layout, written, owner, jump, lost>>

(***************************************************************************)
(* The payload and the three entries.                                      *)
(***************************************************************************)
WritePayload ==
    /\ inj.pc = "payload"
    /\ \/ Goto("patch") /\ written' = written \union {PageOf(inj.gap)} /\ UNCHANGED used
       \/ inj' = Failed /\ Fault /\ UNCHANGED written
    /\ UNCHANGED <<target, layout, owner, jump, scratch, lost>>

\* The stubs follow each other in the page.
EntryOffset == [h \in Hook |-> IF h = "clock_gettime" THEN 0 ELSE IF h = "gettimeofday" THEN 1 ELSE 2]

Disp(h) == inj.gap + EntryOffset[h] - (layout[h] + JmpLen)

InReach(h) == Disp(h) \in -Window .. Window - 1

\* Mutant: the last entry is left out.
PatchTwo ==
    /\ inj.pc = "patch" /\ inj.i <= 2
    /\ jump' = [jump EXCEPT ![Hooks[inj.i]] = inj.gap]
    /\ inj' = IF inj.i = 2 THEN [inj EXCEPT !.pc = "rest", !.ok = TRUE] ELSE [inj EXCEPT !.i = @ + 1]
    /\ scratch' = (scratch /\ inj.i # 1)
    /\ UNCHANGED <<target, layout, written, owner, lost, used>>

Patch ==
    /\ inj.pc = "patch"
    /\ InReach(Hooks[inj.i])
    /\ jump' = [jump EXCEPT ![Hooks[inj.i]] = inj.gap]
    /\ inj' = IF inj.i = 3 THEN [inj EXCEPT !.pc = "rest", !.ok = TRUE] ELSE [inj EXCEPT !.i = @ + 1]
    /\ scratch' = (scratch /\ inj.i # 1)
    /\ UNCHANGED <<target, layout, written, owner, lost, used>>

\* Out of reach, or the entry cannot be read or written; what was patched stays.
PatchErr ==
    /\ inj.pc = "patch"
    /\ \/ ~InReach(Hooks[inj.i]) /\ UNCHANGED used
       \/ InReach(Hooks[inj.i]) /\ target.brittle /\ Fault
    /\ inj' = Failed
    /\ UNCHANGED <<target, layout, written, owner, jump, scratch, lost>>

RemoteMmap == Poke \/ PokeErr \/ MmapNoReplace \/ MmapFixed \/ MmapErr \/ Restore \/ Undo

Next ==
    \/ \E p \in Page : AppMap(p)
    \/ Begin \/ FindNearbyGap \/ RemoteMmap \/ WritePayload \/ Patch \/ PatchErr

Spec == Init /\ [][Next]_vars

(***************************************************************************)
(* Properties.                                                             *)
(***************************************************************************)
\* Free pages that lie in the window whole.
Candidates ==
    {p \in Page \ {0} : /\ owner[p] = "free"
                        /\ Start(p) >= Near - Window
                        /\ End(p) <= Near + Window}

\* In a process that ptrace holds whole, findNearbyGap returns the lowest free
\* page of the window whatever is mapped, and fails only when there is none.
GapExact ==
    [][~target.threads /\ inj.pc = "gap" /\ inj'.pc # "gap" =>
           IF Candidates = {} THEN inj'.pc = "rest"
           ELSE /\ inj'.pc = "poke"
                /\ inj'.gap % PageSize = 0
                /\ PageOf(inj'.gap) \in Candidates
                /\ \A p \in Candidates : PageOf(inj'.gap) <= p]_vars

\* In a process that ptrace holds whole, no injection maps its page over one
\* that is in use: not with MAP_FIXED either.
NothingOverwritten == ~target.threads => lost = {}

\* "MAP_FIXED is safe here because findNearbyGap already confirmed the address is
\* free and the process is ptrace-stopped so the address space is stable": of a
\* process with several threads ptrace stops the one that was seized, and the
\* others go on mapping.
FixedIsSafe == lost = {}

\* After an injection that succeeded the three functions lead to the page of
\* its handle, and one that failed before its patches leaves them in agreement.
OneClock ==
    inj.pc = "rest" => /\ inj.ok => \A h \in Hook : jump[h] = inj.gap
                       /\ ~target.brittle => \A g, h \in Hook : jump[g] = jump[h]

\* What a thread that calls h at this moment runs.
Runs(h) ==
    IF scratch /\ h = "clock_gettime" THEN "syscall; int3"
    ELSE IF jump[h] = 0 THEN "vdso"
    ELSE IF PageOf(jump[h]) \in written THEN "stubs" ELSE "nothing"

\* Whenever the program calls a clock function, through any number of
\* injections that fail at any step, it finds the vDSO's own code or a page
\* whose stubs are complete.  The syscall; int3 that remoteMmap borrows the
\* entry of clock_gettime for is met only by a thread that ptrace does not
\* hold, and only while remoteMmap runs, unless the entry could not be written
\* a second time.
CallsSane ==
    target.threads \/ inj.pc = "rest" =>
        \A h \in Hook : \/ Runs(h) \in {"vdso", "stubs"}
                        \/ /\ Runs(h) = "syscall; int3"
                           /\ inj.pc \in {"noreplace", "fixed", "restore", "undo"} \/ target.brittle

\* Kernels put clock_gettime behind the other two, less than a page away, and its
\* first bytes do not cross a page.
KernelOrder ==
    \A l \in Layouts :
        /\ (l["clock_gettime"] % PageSize) + JmpLen <= PageSize
        /\ \A h \in Hook : /\ l[h] <= l["clock_gettime"]
                           /\ l["clock_gettime"] + EntryOffset[h] < l[h] + PageSize + JmpLen

\* The page that was found can be reached by a jump from all three entries,
\* unless clock_gettime is the first function of its page.
ReachesAll ==
    inj.pc = "patch" /\ Near % PageSize # 0 => \A h \in Hook : InReach(h)
=============================================================================
