--------------------------------- MODULE Term ---------------------------------
(***************************************************************************)
(* client/term.c: a table of managed terminals.  For each it keeps the     *)
(* settings the device had when it was added, those it is thought to have  *)
(* now, and those to be applied next.  Calls to the device can fail.       *)
(*                                                                         *)
(* The program (external) uses the library as term.h describes: it does    *)
(* not open a device twice at a time, and after closing and reopening one  *)
(* that is managed it replaces the descriptor instead of adding another.   *)
(* A call for a descriptor that is not managed, or before the library is   *)
(* initialized, fails and changes nothing: it is no step.  term_errno, the *)
(* modem line DTR and the contents of the queues are left out.             *)
(***************************************************************************)
EXTENDS Integers

CONSTANTS MaxTerms,      \* MAX_TERMS, 16
          Fd, Dev,       \* descriptors and devices,
          DevOf,         \* ... and which device a descriptor is opened on
          Default,       \* settings of a device that nobody has changed
          Foreign,       \* settings that other programs give a device
          Request        \* arguments the program calls term_set...() with

VARIABLES init,     \* term.init
          table,    \* term.fd, origtermios, currtermios and nexttermios
          tio,      \* the settings of the devices themselves
          open,     \* descriptors that are open
          rval,     \* value of the last call: 0 or -1
          strange,  \* history: devices changed from outside since they were last looked at
          found,    \* history: the settings the library is to give a device back, or Nothing
          orphans   \* history: devices a failed term_set() of another has taken out of the table

vars == <<init, table, tio, open, rval, strange, found, orphans>>
world == <<tio, open>>
history == <<strange, found, orphans>>

Slot == 0 .. MaxTerms - 1
Nothing == [flags |-> {}]

\* The settings of a free slot are never looked at, as long as nobody takes
\* -1 for a descriptor.
Free == [fd |-> -1]

-----------------------------------------------------------------------------
(* Settings: the speed, the data bits, and the flags of the three c_?flag. *)

Baudrates == {0, 50, 75, 110, 134, 150, 200, 300, 600, 1200, 1800, 2400, 4800,
              9600, 19200, 38400, 57600, 115200}
Parities == {"P_NONE", "P_EVEN", "P_ODD"}
FlowControls == {"FC_NONE", "FC_RTSCTS", "FC_XONXOFF"}
Flag == {"PARENB", "PARODD", "CRTSCTS", "IXON", "IXOFF", "IXANY", "CLOCAL", "HUPCL",
         "COOKED"}

Settings == [speed : Baudrates, bits : 5 .. 8, flags : SUBSET Flag]

ASSUME TermAssumption ==
  /\ MaxTerms \in Nat
  /\ Fd \subseteq Nat
  /\ DevOf \in [Fd -> Dev]
  /\ Default \in Settings
  /\ Foreign \subseteq Settings

\* cfmakeraw() (external) with VMIN = 1 and VTIME = 0.  COOKED stands for the
\* processing of characters, which raw mode switches off altogether.
WithRaw(s) == [s EXCEPT !.bits = 8, !.flags = @ \ {"COOKED", "IXON", "PARENB"}]

WithBaudrate(s, baud) == [s EXCEPT !.speed = baud]

WithParity(s, parity) ==
  [s EXCEPT !.flags =
     CASE parity = "P_EVEN" -> (@ \ {"PARODD"}) \cup {"PARENB"}
       [] parity = "P_ODD"  -> @ \cup {"PARENB", "PARODD"}
       [] parity = "P_NONE" -> @ \ {"PARENB", "PARODD"}]

WithDatabits(s, bits) == [s EXCEPT !.bits = bits]

WithFlowcntrl(s, flow) ==
  LET soft == {"IXON", "IXOFF", "IXANY"}
  IN  [s EXCEPT !.flags =
         CASE flow = "FC_RTSCTS"  -> (@ \ soft) \cup {"CRTSCTS"}
           [] flow = "FC_XONXOFF" -> (@ \ {"CRTSCTS"}) \cup {"IXON", "IXOFF"}
           [] flow = "FC_NONE"    -> @ \ (soft \cup {"CRTSCTS"})]

WithFlag(s, flag, on) ==
  [s EXCEPT !.flags = IF on THEN @ \cup {flag} ELSE @ \ {flag}]

WithLocal(s, local) == WithFlag(s, "CLOCAL", local)
WithHupcl(s, on) == WithFlag(s, "HUPCL", on)

\* What the calls of term_set() make of s: all of them, or those before the
\* first that fails.
AfterSet(s, r) ==
  LET raw == IF r.raw THEN WithRaw(s) ELSE s
      baud == WithBaudrate(raw, r.baud)
      parity == WithParity(baud, r.parity)
      bits == WithDatabits(parity, r.bits)
      flow == WithFlowcntrl(bits, r.flow)
  IN  IF r.baud \notin Baudrates THEN raw
      ELSE IF r.parity \notin Parities THEN baud
      ELSE IF r.bits \notin 5 .. 8 THEN parity
      ELSE IF r.flow \notin FlowControls THEN bits
      ELSE WithHupcl(WithLocal(flow, r.local), r.hup)

Valid(r) == /\ r.baud \in Baudrates
            /\ r.parity \in Parities
            /\ r.bits \in 5 .. 8
            /\ r.flow \in FlowControls

-----------------------------------------------------------------------------
(* The table. *)

Used == {i \in Slot : table[i] # Free}
First(S) == CHOOSE i \in S : \A j \in S : i <= j
Last(S) == CHOOSE i \in S : \A j \in S : i >= j

Slots(f) == {i \in Slot : table[i].fd = f}
Managed(f) == init /\ Slots(f) # {}
Find(f) == First(Slots(f))                  \* term_find()
FreeSlots == {i \in Slot : table[i] = Free} \* term_find_next_free()
OnDev(d) == {i \in Used : DevOf[table[i].fd] = d}

Entries == [fd : Fd, orig : Settings, curr : Settings, next : Settings]
Entry(f, s) == [fd |-> f, orig |-> s, curr |-> s, next |-> s]

Init ==
  /\ init = FALSE
  /\ table = [i \in Slot |-> Free]
  /\ tio = [d \in Dev |-> Default]
  /\ open = {}
  /\ rval = 0
  /\ strange = {}
  /\ found = [d \in Dev |-> Nothing]
  /\ orphans = {}

\* A call that returns value and changes the table alone.
Return(value) == rval' = value /\ UNCHANGED init

\* tcsetattr(), tcgetattr() and tcflush() (external) may fail, and do when
\* the descriptor is not open.
Outcomes(f) == IF f \in open THEN BOOLEAN ELSE {FALSE}

\* The loop of term_lib_init() and term_exitfunc(): the slots are reset in
\* their order, those in failed are not, and all are freed.
OwnSettings(failed) ==
  [d \in Dev |-> LET S == OnDev(d) \ failed
                 IN  IF S = {} THEN tio[d] ELSE table[Last(S)].orig]

\* A plausible bug: a failure ends the loop.
ResetUntilFailure ==
  \E failed \in SUBSET Used :
    /\ \A i \in Used : table[i].fd \notin open => i \in failed
    /\ tio' = OwnSettings({i \in Used : \E j \in failed : j <= i})
    /\ found' = [d \in Dev |-> IF OnDev(d) \cap failed = {} THEN found[d] ELSE Nothing]

ResetAll ==
  \E failed \in SUBSET Used :
    /\ \A i \in Used : table[i].fd \notin open => i \in failed
    /\ tio' = OwnSettings(failed)
    /\ found' = [d \in Dev |-> IF OnDev(d) \cap failed = {} THEN found[d] ELSE Nothing]

-----------------------------------------------------------------------------
(* The program's calls. *)

LibInit ==
  /\ init' = TRUE
  /\ table' = [i \in Slot |-> Free]
  /\ rval' = 0
  /\ IF init THEN ResetAll ELSE UNCHANGED <<tio, found>>
  /\ UNCHANGED <<open, strange, orphans>>

\* The program does not add a device that is managed under another descriptor.
MayAdd(f) == \A i \in OnDev(DevOf[f]) : table[i].fd = f

\* A plausible bug: a descriptor that is managed already is added again.
CanAddTwice(f) == init /\ f \in open /\ FreeSlots # {}

\* The tests of term_add(): managed already, not a terminal, no slot left.
CanAdd(f) == init /\ Slots(f) = {} /\ f \in open /\ FreeSlots # {}

\* isatty() and tcgetattr() have succeeded; the devices in lost go.
Added(f, lost) ==
  /\ found' = [found EXCEPT ![DevOf[f]] = tio[DevOf[f]]]
  /\ strange' = strange \ {DevOf[f]}
  /\ orphans' = (orphans \ {DevOf[f]}) \cup lost

Add(f) ==
  /\ MayAdd(f) /\ CanAdd(f)
  /\ table' = [table EXCEPT ![First(FreeSlots)] = Entry(f, tio[DevOf[f]])]
  /\ Added(f, {})
  /\ Return(0) /\ UNCHANGED world

\* The slot is freed whether or not the device could be reset.
Remove(f) ==
  /\ Managed(f)
  /\ \E ok \in Outcomes(f) :
       /\ tio' = [tio EXCEPT ![DevOf[f]] = IF ok THEN table[Find(f)].orig ELSE @]
       /\ found' = [found EXCEPT ![DevOf[f]] = IF ok THEN @ ELSE Nothing]
       /\ Return(IF ok THEN 0 ELSE -1)
  /\ table' = [table EXCEPT ![Find(f)] = Free]
  /\ UNCHANGED <<open, strange, orphans>>

Erase(f) ==
  /\ Managed(f)
  /\ table' = [table EXCEPT ![Find(f)] = Free]
  /\ found' = [found EXCEPT ![DevOf[f]] = Nothing]
  /\ Return(0) /\ UNCHANGED <<world, strange, orphans>>

\* tcsetattr() with settings s, which leaves entry i as e when it succeeds.
Configure(f, s, i, e) ==
  \/ /\ TRUE \in Outcomes(f)
     /\ tio' = [tio EXCEPT ![DevOf[f]] = s]
     /\ table' = [table EXCEPT ![i] = e]
     /\ strange' = strange \ {DevOf[f]}
     /\ Return(0) /\ UNCHANGED <<open, found, orphans>>
  \/ Return(-1) /\ UNCHANGED <<table, world, history>>

Replace(f, new) ==
  /\ Managed(f)
  /\ DevOf[f] = DevOf[new]
  /\ LET i == Find(f) IN Configure(new, table[i].curr, i, [table[i] EXCEPT !.fd = new])

Reset(f) ==
  /\ Managed(f)
  /\ LET i == Find(f) IN Configure(f, table[i].orig, i, Entry(f, table[i].orig))

\* A plausible bug: currtermios is left as it was.
ApplyKeepsCurr(f) ==
  /\ Managed(f)
  /\ LET i == Find(f) IN Configure(f, table[i].next, i, table[i])

Apply(f) ==
  /\ Managed(f)
  /\ LET i == Find(f)
     IN  Configure(f, table[i].next, i, [table[i] EXCEPT !.curr = table[i].next])

Revert(f) ==
  /\ Managed(f)
  /\ table' = [table EXCEPT ![Find(f)].next = table[Find(f)].curr]
  /\ Return(0) /\ UNCHANGED <<world, history>>

Refresh(f) ==
  /\ Managed(f)
  /\ \/ /\ TRUE \in Outcomes(f)
        /\ table' = [table EXCEPT ![Find(f)].curr = tio[DevOf[f]]]
        /\ strange' = strange \ {DevOf[f]}
        /\ Return(0) /\ UNCHANGED <<world, found, orphans>>
     \/ Return(-1) /\ UNCHANGED <<table, world, history>>

\* The functions that set one parameter in nexttermios, when its value is a
\* valid one.
SetNext(f, valid, s) ==
  /\ Managed(f)
  /\ IF valid
       THEN table' = [table EXCEPT ![Find(f)].next = s] /\ Return(0)
       ELSE Return(-1) /\ UNCHANGED table
  /\ UNCHANGED <<world, history>>

NextOf(f) == table[Find(f)].next

SetRaw(f) == SetNext(f, TRUE, WithRaw(NextOf(f)))
SetBaudrate(f, r) == SetNext(f, r.baud \in Baudrates, WithBaudrate(NextOf(f), r.baud))
SetParity(f, r) == SetNext(f, r.parity \in Parities, WithParity(NextOf(f), r.parity))
SetDatabits(f, r) == SetNext(f, r.bits \in 5 .. 8, WithDatabits(NextOf(f), r.bits))
SetFlowcntrl(f, r) ==
  SetNext(f, r.flow \in FlowControls, WithFlowcntrl(NextOf(f), r.flow))
SetLocal(f, r) == SetNext(f, TRUE, WithLocal(NextOf(f), r.local))
SetHupcl(f, r) == SetNext(f, TRUE, WithHupcl(NextOf(f), r.hup))

\* A plausible bug: what the parameters before the invalid one made of
\* nexttermios is not taken back.
SetManagedPartly(f, r) ==
  /\ Managed(f)
  /\ table' = [table EXCEPT ![Find(f)].next = AfterSet(@, r)]
  /\ Return(IF Valid(r) THEN 0 ELSE -1)
  /\ UNCHANGED <<world, history>>

\* term_set() for a descriptor that is managed already: with an invalid
\* parameter it takes back what the others have done.
SetManaged(f, r) == SetNext(f, Valid(r), AfterSet(NextOf(f), r))

\* ... and for a new one, which it adds.  It takes the value of term_add(), 0,
\* for the slot: after an invalid parameter slot 0 is freed, whoever is there,
\* and the new entry stays, with what was set of it, unless it is that one.
SetNew(f, r) ==
  LET new == Entry(f, tio[DevOf[f]])
      added == [table EXCEPT ![First(FreeSlots)] = [new EXCEPT !.next = AfterSet(@, r)]]
  IN  /\ MayAdd(f) /\ CanAdd(f)
      /\ IF Valid(r)
           THEN table' = added /\ Added(f, {}) /\ Return(0)
           ELSE /\ table' = [added EXCEPT ![0] = Free]
                /\ Added(f, {DevOf[table[i].fd] : i \in Used \cap {0}})
                /\ Return(-1)
      /\ UNCHANGED world

\* The program ends: term_exitfunc(), and the descriptors are closed.
Exit ==
  /\ init
  /\ ResetAll
  /\ init' = FALSE
  /\ table' = [i \in Slot |-> Free]
  /\ open' = {}
  /\ rval' = 0
  /\ UNCHANGED <<strange, orphans>>

-----------------------------------------------------------------------------
(* The world (external). *)

Open(f) ==
  /\ \A g \in open : DevOf[g] # DevOf[f]
  /\ open' = open \cup {f}
  /\ rval' = 0
  /\ UNCHANGED <<init, table, tio, history>>

\* The settings change, and not by the library.
Estrange(d, s) ==
  /\ tio' = [tio EXCEPT ![d] = s]
  /\ strange' = strange \cup {d}
  /\ found' = [found EXCEPT ![d] = IF OnDev(d) = {} THEN Nothing ELSE @]
  /\ UNCHANGED orphans

\* A device that is closed may lose its settings.
Close(f) ==
  /\ f \in open
  /\ open' = open \ {f}
  /\ Estrange(DevOf[f], Default) \/ UNCHANGED <<tio, history>>
  /\ rval' = 0
  /\ UNCHANGED <<init, table>>

\* Another program, stty say, gives a device settings.
Outside(d, s) ==
  /\ Estrange(d, s)
  /\ rval' = 0
  /\ UNCHANGED <<init, table, open>>

Call(f) ==
  \/ Add(f) \/ Remove(f) \/ Erase(f)
  \/ Reset(f) \/ Apply(f) \/ Revert(f) \/ Refresh(f)
  \/ \E new \in Fd : Replace(f, new)
  \/ SetRaw(f)
  \/ \E r \in Request :
       \/ SetBaudrate(f, r) \/ SetParity(f, r) \/ SetDatabits(f, r)
       \/ SetFlowcntrl(f, r) \/ SetLocal(f, r) \/ SetHupcl(f, r)
       \/ SetManaged(f, r) \/ SetNew(f, r)

Next ==
  \/ LibInit
  \/ Exit
  \/ \E f \in Fd : Call(f) \/ Open(f) \/ Close(f)
  \/ \E d \in Dev, s \in Foreign : Outside(d, s)

Spec == Init /\ [][Next]_vars

-----------------------------------------------------------------------------
\* Every slot is free or holds three settings of a descriptor, and no
\* descriptor is in two slots.
TypeOK ==
  /\ init \in BOOLEAN
  /\ table \in [Slot -> {Free} \cup Entries]
  /\ \A i, j \in Used : table[i].fd = table[j].fd => i = j
  /\ tio \in [Dev -> Settings]
  /\ open \subseteq Fd
  /\ rval \in {-1, 0}
  /\ strange \subseteq Dev
  /\ found \in [Dev -> Settings \cup {Nothing}]
  /\ orphans \subseteq Dev

\* term.h: the original settings "are restored when the fd is removed from
\* the framework, or at program termination", or when the library is
\* initialized again.  Whatever was called in between, with whatever
\* failures, a device that is no longer managed has the settings it was
\* found with, unless it was erased, or the call that should have reset it
\* failed, or a term_set() of another descriptor failed and freed its slot.
Restored ==
  \A d \in Dev \ orphans : OnDev(d) = {} /\ found[d] # Nothing => tio[d] = found[d]

\* term.h: currtermios keeps "the current settings of the associated terminal
\* device".  It does so whichever calls failed, until somebody else changes
\* the device.
CurrIsDevice ==
  \A i \in Used : LET d == DevOf[table[i].fd]
                  IN  d \notin strange => table[i].curr = tio[d]

\* A call that fails leaves the devices as they are and the three settings of
\* every entry there was, whatever it did before it failed; all it may do to
\* an entry is to free its slot.  And it manages nothing new, and takes no
\* other device out of the table: "If the function successfully adds the
\* filedes to the framework, and following this it fails, then it will remove
\* the filedes before returning", says term.h of term_set().  That holds only
\* as long as slot 0 is free when the call begins, see SetNew.
FailureKeepsEntries ==
  [][rval' = -1 => /\ \A i \in Used : table'[i] \in {table[i], Free}
                   /\ tio' = tio
                   /\ 0 \in Slot \ Used => /\ \A i \in Slot \ Used : table'[i] = Free
                                          /\ orphans' \subseteq orphans]_vars
=============================================================================
