------------------------------ MODULE TermProofs ------------------------------
(***************************************************************************)
(* The table of terminals gives devices their settings back and knows the  *)
(* settings they have, for every number of slots, every set of descriptors *)
(* and devices, and every failure.                                         *)
(***************************************************************************)
EXTENDS Term, NumberTheorems

-----------------------------------------------------------------------------
(* Settings.                                                               *)

LEMMA FieldsKept ==
  ASSUME NEW s \in Settings, NEW b \in Baudrates, NEW n \in 5 .. 8,
         NEW F \in SUBSET Flag
  PROVE  /\ [s EXCEPT !.speed = b] \in Settings
         /\ [s EXCEPT !.bits = n] \in Settings
         /\ [s EXCEPT !.flags = F] \in Settings
         /\ s.flags \in SUBSET Flag
BY DEF Settings

\* Whatever valid parameter is set, the result is settings again.
LEMMA SettingsKept ==
  ASSUME NEW s \in Settings
  PROVE  /\ WithRaw(s) \in Settings
         /\ \A baud \in Baudrates : WithBaudrate(s, baud) \in Settings
         /\ \A parity \in Parities : WithParity(s, parity) \in Settings
         /\ \A bits \in 5 .. 8 : WithDatabits(s, bits) \in Settings
         /\ \A flow \in FlowControls : WithFlowcntrl(s, flow) \in Settings
         /\ \A on : WithLocal(s, on) \in Settings /\ WithHupcl(s, on) \in Settings
<1> DEFINE F == s.flags
<1>1. F \in SUBSET Flag
  BY FieldsKept DEF Settings
<1>2. ASSUME NEW G \in SUBSET Flag
      PROVE  [s EXCEPT !.flags = G] \in Settings
  BY DEF Settings
<1>3. WithRaw(s) \in Settings
  <2>1. F \ {"COOKED", "IXON", "PARENB"} \in SUBSET Flag /\ 8 \in 5 .. 8
    BY <1>1
  <2> QED BY <2>1 DEF WithRaw, Settings
<1>4. \A baud \in Baudrates : WithBaudrate(s, baud) \in Settings
  BY DEF WithBaudrate, Settings
<1>5. \A bits \in 5 .. 8 : WithDatabits(s, bits) \in Settings
  BY DEF WithDatabits, Settings
<1>6. \A parity \in Parities : WithParity(s, parity) \in Settings
  <2>1. /\ (F \ {"PARODD"}) \cup {"PARENB"} \in SUBSET Flag
        /\ F \cup {"PARENB", "PARODD"} \in SUBSET Flag
        /\ F \ {"PARENB", "PARODD"} \in SUBSET Flag
    BY <1>1 DEF Flag
  <2> QED BY <1>2, <2>1 DEF WithParity, Parities
<1>7. \A flow \in FlowControls : WithFlowcntrl(s, flow) \in Settings
  <2>1. /\ (F \ {"IXON", "IXOFF", "IXANY"}) \cup {"CRTSCTS"} \in SUBSET Flag
        /\ (F \ {"CRTSCTS"}) \cup {"IXON", "IXOFF"} \in SUBSET Flag
        /\ F \ ({"IXON", "IXOFF", "IXANY"} \cup {"CRTSCTS"}) \in SUBSET Flag
    BY <1>1 DEF Flag
  <2> QED BY <1>2, <2>1 DEF WithFlowcntrl, FlowControls
<1>8. \A on : WithLocal(s, on) \in Settings /\ WithHupcl(s, on) \in Settings
  <2>1. \A x \in {"CLOCAL", "HUPCL"} : F \cup {x} \in SUBSET Flag /\ F \ {x} \in SUBSET Flag
    BY <1>1 DEF Flag
  <2>2. \A x \in {"CLOCAL", "HUPCL"} : \A on : WithFlag(s, x, on) \in Settings
    BY <1>2, <2>1 DEF WithFlag
  <2> QED BY <2>2 DEF WithLocal, WithHupcl
<1> QED BY <1>3, <1>4, <1>5, <1>6, <1>7, <1>8

\* So is what term_set() makes of them, whether it fails or not.
LEMMA AfterSetKept ==
  ASSUME NEW s \in Settings, NEW r
  PROVE  AfterSet(s, r) \in Settings
<1> DEFINE raw == IF r.raw THEN WithRaw(s) ELSE s
           baud == WithBaudrate(raw, r.baud)
           parity == WithParity(baud, r.parity)
           bits == WithDatabits(parity, r.bits)
           flow == WithFlowcntrl(bits, r.flow)
           local == WithLocal(flow, r.local)
           all == WithHupcl(local, r.hup)
<1>1. raw \in Settings
  BY SettingsKept
<1> HIDE DEF raw
<1>2. r.baud \in Baudrates => baud \in Settings
  BY <1>1, SettingsKept
<1> HIDE DEF baud
<1>3. r.baud \in Baudrates /\ r.parity \in Parities => parity \in Settings
  BY <1>2, SettingsKept
<1> HIDE DEF parity
<1>4. r.baud \in Baudrates /\ r.parity \in Parities /\ r.bits \in 5 .. 8 => bits \in Settings
  BY <1>3, SettingsKept
<1> HIDE DEF bits
<1>5. Valid(r) => flow \in Settings
  BY <1>4, SettingsKept DEF Valid
<1> HIDE DEF flow
<1>6. Valid(r) => local \in Settings
  BY <1>5, SettingsKept
<1> HIDE DEF local
<1>7. Valid(r) => all \in Settings
  BY <1>6, SettingsKept
<1>8. AfterSet(s, r) = IF r.baud \notin Baudrates THEN raw
                       ELSE IF r.parity \notin Parities THEN baud
                       ELSE IF r.bits \notin 5 .. 8 THEN parity
                       ELSE IF r.flow \notin FlowControls THEN bits
                       ELSE all
  BY DEF AfterSet, raw, baud, parity, bits, flow, local
<1> HIDE DEF all
<1> QED BY <1>1, <1>2, <1>3, <1>4, <1>7, <1>8 DEF Valid

-----------------------------------------------------------------------------
(* Slots.                                                                  *)

\* Of several slots one is the first.
LEMMA FirstIsIn ==
  ASSUME NEW S \in SUBSET Slot, S # {}
  PROVE  First(S) \in S /\ \A j \in S : First(S) <= j
<1>1. S \in SUBSET Nat
  BY TermAssumption DEF Slot
<1>2. \E i \in S : \A j \in S : i <= j
  BY <1>1, Least
<1> QED BY <1>2 DEF First

-----------------------------------------------------------------------------
(* The invariant.                                                          *)

\* The program does not manage a device under two descriptors, and Replace
\* stays on the device.
OneOnDev ==
  \A i, j \in Used : DevOf[table[i].fd] = DevOf[table[j].fd] => i = j

\* What a managed device is to be given back is in its slot.
OrigIsFound ==
  \A i \in Used : LET d == DevOf[table[i].fd]
                  IN  found[d] # Nothing => table[i].orig = found[d]

Types ==
  /\ init \in BOOLEAN
  /\ table \in [Slot -> {Free} \cup Entries]
  /\ tio \in [Dev -> Settings]
  /\ open \subseteq Fd
  /\ rval \in {-1, 0}
  /\ strange \subseteq Dev
  /\ found \in [Dev -> Settings \cup {Nothing}]
  /\ orphans \subseteq Dev

\* Nothing is managed before the library is initialized.
EmptyAtFirst == ~init => Used = {}

IInv ==
  Types /\ EmptyAtFirst /\ OneOnDev /\ OrigIsFound /\ Restored /\ CurrIsDevice

\* A used slot holds an entry of some device; a free one holds none.
LEMMA UsedSlots ==
  ASSUME Types
  PROVE  /\ \A i \in Used : /\ i \in Slot /\ table[i] \in Entries
                            /\ table[i].fd \in Fd /\ DevOf[table[i].fd] \in Dev
         /\ \A i \in Slot : table[i] \in Entries => i \in Used
         /\ \A e \in Entries : e # Free
         /\ Used \subseteq Slot
<1>1. \A e \in Entries : e.fd \in Fd /\ e.fd # -1
  BY TermAssumption DEF Entries
<1>2. \A e \in Entries : e # Free
  BY <1>1 DEF Free
<1>3. \A i \in Used : i \in Slot /\ table[i] \in Entries
  BY DEF Types, Used
<1> QED BY <1>1, <1>2, <1>3, TermAssumption DEF Used

\* term_find() finds the slot of a managed descriptor.
LEMMA FoundSlot ==
  ASSUME Types, OneOnDev, NEW f \in Fd, Managed(f)
  PROVE  /\ Find(f) \in Used
         /\ table[Find(f)] \in Entries
         /\ table[Find(f)].fd = f
         /\ DevOf[f] \in Dev
<1>1. Find(f) \in Slots(f)
  BY FirstIsIn DEF Managed, Find, Slots
<1>2. f # -1
  BY TermAssumption
<1>3. Find(f) \in Used
  BY <1>1, <1>2 DEF Slots, Used, Free
<1> QED BY <1>1, <1>3, UsedSlots DEF Slots

\* An entry is rewritten, on its device and with the settings to be given
\* back, and the device is given the settings s.
LEMMA RewriteKeepsInv ==
  ASSUME IInv, NEW i \in Used, NEW e \in Entries, NEW s \in Settings, NEW d,
         d = DevOf[table[i].fd], DevOf[e.fd] = d,
         e.orig = table[i].orig,
         table' = [table EXCEPT ![i] = e],
         tio' = [tio EXCEPT ![d] = s],
         strange' \in {strange, strange \ {d}},
         d \notin strange' => e.curr = s,
         UNCHANGED <<init, open, found, orphans>>, rval' \in {-1, 0}
  PROVE  IInv'
<1> USE DEF IInv
<1>1. d \in Dev /\ i \in Slot
  BY UsedSlots
<1>2. Types'
  BY <1>1 DEF Types
<1>3. Used' = Used
  BY <1>1, UsedSlots DEF Types, Used
<1>9. EmptyAtFirst'
  BY <1>3 DEF EmptyAtFirst
<1>4. \A j \in Used : /\ DevOf[table'[j].fd] = DevOf[table[j].fd]
                      /\ table'[j].orig = table[j].orig
  BY <1>1, UsedSlots DEF Types
<1>5. OneOnDev'
  BY <1>3, <1>4 DEF OneOnDev
<1>6. OrigIsFound'
  BY <1>3, <1>4 DEF OrigIsFound
<1>7. Restored'
  <2>1. \A x \in Dev : OnDev(x)' = OnDev(x)
    BY <1>3, <1>4 DEF OnDev
  <2>2. OnDev(d) # {}
    BY DEF OnDev
  <2>3. \A x \in Dev : x # d => tio'[x] = tio[x]
    BY DEF Types
  <2> QED BY <2>1, <2>2, <2>3 DEF Restored
<1>8. CurrIsDevice'
  <2> SUFFICES ASSUME NEW j \in Used, DevOf[table[j].fd] \notin strange'
               PROVE  table'[j].curr = tio'[DevOf[table[j].fd]]
    BY <1>3, <1>4 DEF CurrIsDevice
  <2>1. CASE j = i
    BY <2>1, <1>1 DEF Types
  <2>2. CASE j # i
    <3>1. DevOf[table[j].fd] # d /\ table'[j] = table[j]
      BY <2>2 DEF OneOnDev, Types
    <3>2. tio'[DevOf[table[j].fd]] = tio[DevOf[table[j].fd]]
      BY <3>1 DEF Types
    <3> QED BY <3>1, <3>2 DEF CurrIsDevice
  <2> QED BY <2>1, <2>2
<1> QED BY <1>2, <1>5, <1>6, <1>7, <1>8, <1>9

\* An entry is made for a device that is not managed, as it is found.
LEMMA InsertKeepsInv ==
  ASSUME IInv, NEW f \in Fd, MayAdd(f), CanAdd(f), NEW e \in Entries,
         e.fd = f, e.orig = tio[DevOf[f]], e.curr = tio[DevOf[f]],
         table' = [table EXCEPT ![First(FreeSlots)] = e],
         Added(f, {}), UNCHANGED <<init, world>>, rval' = 0
  PROVE  IInv'
<1> USE DEF IInv, world
<1> DEFINE i == First(FreeSlots)
           d == DevOf[f]
<1>1. i \in Slot /\ table[i] = Free /\ i \notin Used
  BY FirstIsIn DEF CanAdd, FreeSlots, Used
<1>2. d \in Dev /\ tio[d] \in Settings
  BY TermAssumption DEF Types
<1>3. \A j \in Used : DevOf[table[j].fd] # d
  BY UsedSlots DEF MayAdd, CanAdd, OnDev, Slots
<1> HIDE DEF i, d
<1>4. /\ table' = [table EXCEPT ![i] = e]
      /\ tio' = tio
      /\ found' = [found EXCEPT ![d] = tio[d]]
      /\ strange' = strange \ {d} /\ orphans' = orphans \ {d}
      /\ DevOf[e.fd] = d /\ e.orig = tio[d] /\ e.curr = tio[d]
  BY DEF Added, i, d
<1>5. Types'
  BY <1>1, <1>2, <1>4 DEF Types
<1>6. Used' = Used \cup {i} /\ table'[i] = e /\ \A j \in Used : table'[j] = table[j]
  BY <1>1, <1>4, UsedSlots DEF Types, Used
<1>7. OneOnDev'
  BY <1>3, <1>4, <1>6 DEF OneOnDev
<1>8. \A x \in Dev \ {d} : found'[x] = found[x] /\ (x \in strange' <=> x \in strange)
  BY <1>4 DEF Types
<1>9. found'[d] = tio[d]
  BY <1>2, <1>4 DEF Types
<1>10. OrigIsFound'
  <2>1. \A j \in Used : DevOf[table[j].fd] \in Dev \ {d}
    BY <1>3, UsedSlots
  <2> QED BY <1>4, <1>6, <1>8, <1>9, <2>1 DEF OrigIsFound
<1>11. Restored'
  <2>1. \A x \in Dev : x # d => OnDev(x)' = OnDev(x)
    BY <1>4, <1>6 DEF OnDev
  <2>2. OnDev(d)' # {}
    BY <1>4, <1>6 DEF OnDev
  <2> QED BY <1>4, <1>8, <2>1, <2>2 DEF Restored
<1>12. CurrIsDevice'
  <2>1. \A j \in Used : DevOf[table[j].fd] \in Dev \ {d}
    BY <1>3, UsedSlots
  <2> QED BY <1>4, <1>6, <1>8, <2>1 DEF CurrIsDevice
<1>13. EmptyAtFirst'
  BY DEF CanAdd, EmptyAtFirst
<1> QED BY <1>5, <1>7, <1>10, <1>11, <1>12, <1>13

\* An entry is made, and what is in slot 0 then goes, an entry of another
\* device or the new one.
LEMMA ExchangeKeepsInv ==
  ASSUME IInv, NEW f \in Fd, MayAdd(f), CanAdd(f), NEW e \in Entries,
         e.fd = f, e.orig = tio[DevOf[f]], e.curr = tio[DevOf[f]],
         table' = [table EXCEPT ![First(FreeSlots)] = e, ![0] = Free],
         Added(f, {DevOf[table[i].fd] : i \in Used \cap {0}}),
         UNCHANGED <<init, world>>, rval' = -1
  PROVE  IInv'
<1> USE DEF IInv, world
<1> DEFINE i == First(FreeSlots)
           d == DevOf[f]
           lost == {DevOf[table[j].fd] : j \in Used \cap {0}}
           Kept == Used \ {0}
<1>1. i \in Slot /\ i \notin Used
  BY FirstIsIn DEF CanAdd, FreeSlots, Used
<1>2. d \in Dev /\ tio[d] \in Settings
  BY TermAssumption DEF Types
<1>3. \A j \in Used : DevOf[table[j].fd] \in Dev \ {d}
  BY UsedSlots DEF MayAdd, CanAdd, OnDev, Slots
<1>4. lost \subseteq Dev
  BY <1>3
<1> HIDE DEF i, d, lost
<1>5. /\ table' = [table EXCEPT ![i] = e, ![0] = Free]
      /\ tio' = tio
      /\ found' = [found EXCEPT ![d] = tio[d]]
      /\ strange' = strange \ {d} /\ orphans' = (orphans \ {d}) \cup lost
      /\ DevOf[e.fd] = d /\ e.orig = tio[d] /\ e.curr = tio[d]
  BY DEF Added, i, d, lost
<1>6. 0 \in Slot
  BY <1>1, TermAssumption DEF Slot
<1>7. Types'
  BY <1>1, <1>2, <1>4, <1>5, <1>6 DEF Types
<1>8. /\ Kept \subseteq Used' /\ Used' \subseteq Kept \cup {i}
      /\ \A j \in Kept : table'[j] = table[j]
      /\ i \in Used' => table'[i] = e
  BY <1>1, <1>5, <1>6 DEF Types, Used
<1>9. OneOnDev'
  BY <1>3, <1>5, <1>8 DEF OneOnDev
<1>10. \A x \in Dev \ {d} : found'[x] = found[x] /\ (x \in strange' <=> x \in strange)
  BY <1>5 DEF Types
<1>11. found'[d] = tio[d]
  BY <1>2, <1>5 DEF Types
<1>12. OrigIsFound'
  <2> SUFFICES ASSUME NEW j \in Used', found'[DevOf[table'[j].fd]] # Nothing
               PROVE  table'[j].orig = found'[DevOf[table'[j].fd]]
    BY DEF OrigIsFound
  <2>1. CASE j \in Kept
    <3>1. table'[j] = table[j] /\ found'[DevOf[table[j].fd]] = found[DevOf[table[j].fd]]
      BY <1>3, <1>8, <1>10, <2>1
    <3> QED BY <2>1, <3>1 DEF OrigIsFound
  <2>2. CASE j = i
    BY <1>5, <1>8, <1>11, <2>2
  <2> QED BY <1>8, <2>1, <2>2
<1>13. CurrIsDevice'
  BY <1>3, <1>5, <1>8, <1>10 DEF CurrIsDevice
<1>14. Restored'
  <2> SUFFICES ASSUME NEW x \in Dev, x \notin orphans', OnDev(x)' = {}, found'[x] # Nothing
               PROVE  tio'[x] = found'[x]
    BY DEF Restored
  <2>1. CASE x = d
    BY <1>5, <1>11, <2>1
  <2>2. CASE x # d
    <3>1. x \notin orphans /\ x \notin lost
      BY <1>5, <2>2
    <3>2. OnDev(x) \subseteq Kept
      BY <3>1 DEF OnDev, lost
    <3>3. OnDev(x) \subseteq OnDev(x)'
      BY <1>8, <3>2 DEF OnDev
    <3>4. OnDev(x) = {} /\ found'[x] = found[x]
      BY <1>10, <2>2, <3>3
    <3> QED BY <1>5, <3>1, <3>4 DEF Restored
  <2> QED BY <2>1, <2>2
<1>15. EmptyAtFirst'
  BY DEF CanAdd, EmptyAtFirst
<1> QED BY <1>7, <1>9, <1>12, <1>13, <1>14, <1>15

\* A slot is freed, and its device has its settings back or is given up.
LEMMA DeleteKeepsInv ==
  ASSUME IInv, NEW i \in Used, NEW d, d = DevOf[table[i].fd],
         table' = [table EXCEPT ![i] = Free],
         \/ tio' = [tio EXCEPT ![d] = table[i].orig] /\ found' = found
         \/ tio' = tio /\ found' = [found EXCEPT ![d] = Nothing],
         UNCHANGED <<init, open, strange, orphans>>, rval' \in {-1, 0}
  PROVE  IInv'
<1> USE DEF IInv
<1>1. d \in Dev /\ i \in Slot /\ table[i].orig \in Settings
  BY UsedSlots DEF Entries
<1>2. Types'
  BY <1>1 DEF Types
<1>3. Used' = Used \ {i} /\ \A j \in Used \ {i} : table'[j] = table[j]
  BY <1>1 DEF Types, Used
<1>4. \A j \in Used \ {i} : DevOf[table[j].fd] \in Dev \ {d}
  BY UsedSlots DEF OneOnDev
<1>5. \A x \in Dev \ {d} : found'[x] = found[x] /\ tio'[x] = tio[x]
  BY DEF Types
<1>6. OneOnDev'
  BY <1>3 DEF OneOnDev
<1>7. OrigIsFound'
  BY <1>3, <1>4, <1>5 DEF OrigIsFound
<1>8. CurrIsDevice'
  BY <1>3, <1>4, <1>5 DEF CurrIsDevice
<1>9. Restored'
  <2>1. \A x \in Dev \ {d} : OnDev(x)' = OnDev(x)
    BY <1>3 DEF OnDev
  <2>2. found'[d] # Nothing => tio'[d] = found'[d]
    BY <1>1 DEF OrigIsFound, Types
  <2> QED BY <1>5, <2>1, <2>2 DEF Restored
<1>10. EmptyAtFirst'
  BY <1>3 DEF EmptyAtFirst
<1> QED BY <1>2, <1>6, <1>7, <1>8, <1>9, <1>10

\* All slots are reset and freed.
LEMMA ClearKeepsInv ==
  ASSUME IInv, table' = [i \in Slot |-> Free],
         ResetAll \/ (~init /\ UNCHANGED <<tio, found>>),
         init' \in BOOLEAN, open' \subseteq Fd, UNCHANGED <<strange, orphans>>, rval' = 0
  PROVE  IInv'
<1> USE DEF IInv
<1>1. Used' = {} /\ \A d \in Dev : OnDev(d)' = {}
  BY DEF Used, OnDev
<1>2. EmptyAtFirst' /\ OneOnDev' /\ OrigIsFound' /\ CurrIsDevice'
  BY <1>1 DEF EmptyAtFirst, OneOnDev, OrigIsFound, CurrIsDevice
<1>3. CASE ~init /\ UNCHANGED <<tio, found>>
  <2>1. Types'
    BY <1>3 DEF Types
  <2>2. \A d \in Dev : OnDev(d) = {}
    BY <1>3 DEF EmptyAtFirst, OnDev
  <2>3. Restored'
    BY <1>3, <2>2 DEF Restored
  <2> QED BY <1>2, <2>1, <2>3
<1>4. CASE ResetAll
  <2>1. PICK failed \in SUBSET Used :
          /\ tio' = OwnSettings(failed)
          /\ found' = [d \in Dev |-> IF OnDev(d) \cap failed = {} THEN found[d]
                                                              ELSE Nothing]
    BY <1>4 DEF ResetAll
  <2>2. ASSUME NEW d \in Dev
        PROVE  /\ tio'[d] \in Settings
               /\ found'[d] \in Settings \cup {Nothing}
               /\ d \notin orphans /\ found'[d] # Nothing => tio'[d] = found'[d]
    <3> DEFINE S == OnDev(d) \ failed
    <3>1. tio'[d] = (IF S = {} THEN tio[d] ELSE table[Last(S)].orig)
      BY <2>1 DEF OwnSettings
    <3>2. found'[d] = (IF OnDev(d) \cap failed = {} THEN found[d] ELSE Nothing)
      BY <2>1
    <3>3. CASE S = {}
      <4>1. tio'[d] = tio[d]
        BY <3>1, <3>3
      <4>2. OnDev(d) \cap failed = {} => OnDev(d) = {}
        BY <3>3
      <4> QED BY <3>2, <4>1, <4>2 DEF Types, Restored
    <3>4. CASE S # {}
      <4>1. PICK i \in S : TRUE
        BY <3>4
      <4>2. i \in Used /\ DevOf[table[i].fd] = d
        BY <4>1 DEF OnDev
      <4>3. \A j \in OnDev(d) : j = i
        BY <4>2 DEF OneOnDev, OnDev
      <4>4. S = {i}
        BY <4>1, <4>3
      <4>5. i \in Nat
        BY <4>2, TermAssumption DEF Used, Slot
      <4>6. Last(S) = i
        BY <4>4, <4>5 DEF Last
      <4>7. tio'[d] = table[i].orig /\ table[i].orig \in Settings
        BY <3>1, <3>4, <4>2, <4>6, UsedSlots DEF Entries
      <4> QED BY <3>2, <4>2, <4>7 DEF OrigIsFound, Types
    <3> QED BY <3>3, <3>4
  <2>3. tio' \in [Dev -> Settings] /\ found' \in [Dev -> Settings \cup {Nothing}]
    BY <2>1, <2>2 DEF OwnSettings
  <2>4. Types'
    BY <2>3 DEF Types
  <2>5. Restored'
    BY <2>2 DEF Restored
  <2> QED BY <1>2, <2>4, <2>5
<1> QED BY <1>3, <1>4

\* A device is given settings by somebody else.
LEMMA EstrangeKeepsInv ==
  ASSUME IInv, NEW d \in Dev, NEW s \in Settings, Estrange(d, s),
         UNCHANGED <<init, table>>, open' \subseteq Fd, rval' = 0
  PROVE  IInv'
<1> USE DEF IInv, Estrange
<1>1. Types'
  BY DEF Types
<1>2. Used' = Used /\ \A x \in Dev : OnDev(x)' = OnDev(x)
  BY DEF Used, OnDev
<1>3. OneOnDev' /\ EmptyAtFirst'
  BY <1>2 DEF OneOnDev, EmptyAtFirst
<1>4. \A x \in Dev \ {d} : /\ tio'[x] = tio[x] /\ found'[x] = found[x]
                           /\ x \in strange' <=> x \in strange
  BY DEF Types
<1>5. found'[d] = (IF OnDev(d) = {} THEN Nothing ELSE found[d]) /\ d \in strange'
  BY DEF Types
<1>6. \A j \in Used : DevOf[table[j].fd] \in Dev
  BY UsedSlots
<1>7. OrigIsFound'
  BY <1>2, <1>4, <1>5, <1>6 DEF OrigIsFound
<1>8. CurrIsDevice'
  BY <1>2, <1>4, <1>5, <1>6 DEF CurrIsDevice
<1>9. Restored'
  BY <1>2, <1>4, <1>5 DEF Restored
<1> QED BY <1>1, <1>3, <1>7, <1>8, <1>9

\* Nothing changes but what is open and what is returned.
LEMMA IdleKeepsInv ==
  ASSUME IInv, UNCHANGED <<init, table, tio, strange, found, orphans>>,
         open' \subseteq Fd, rval' \in {-1, 0}
  PROVE  IInv'
BY DEF IInv, Types, EmptyAtFirst, OneOnDev, OrigIsFound, Restored, CurrIsDevice, Used, OnDev

-----------------------------------------------------------------------------
(* The steps.                                                              *)

\* A call that changes the settings to be applied next, or none.
LEMMA SetNextKeepsInv ==
  ASSUME IInv, NEW f \in Fd, NEW valid \in BOOLEAN, NEW s,
         valid => s \in Settings, SetNext(f, valid, s)
  PROVE  IInv'
<1> USE DEF SetNext, Return, world, history
<1> DEFINE i == Find(f)
           e == [table[i] EXCEPT !.next = s]
<1>1. /\ i \in Used /\ table[i] \in Entries /\ table[i].fd = f /\ DevOf[f] \in Dev
  BY FoundSlot DEF IInv
<1>2. CASE ~valid
  <2>1. UNCHANGED <<init, table, tio, open, strange, found, orphans>> /\ rval' = -1
    BY <1>2
  <2>2. open' \subseteq Fd
    BY <2>1 DEF IInv, Types
  <2> QED BY <2>1, <2>2, IdleKeepsInv
<1>3. CASE valid
  <2>1. /\ e \in Entries /\ e.fd = f /\ e.orig = table[i].orig /\ e.curr = table[i].curr
    BY <1>1, <1>3 DEF Entries
  <2>2. /\ table' = [table EXCEPT ![i] = e]
        /\ UNCHANGED <<init, open, tio, strange, found, orphans>> /\ rval' = 0
    BY <1>1, <1>3
  <2>3. tio[DevOf[f]] \in Settings /\ tio' = [tio EXCEPT ![DevOf[f]] = tio[DevOf[f]]]
    BY <1>1, <2>2 DEF IInv, Types
  <2>4. DevOf[f] \notin strange' => e.curr = tio[DevOf[f]]
    BY <1>1, <2>1, <2>2 DEF IInv, CurrIsDevice
  <2> HIDE DEF i, e
  <2> QED BY <1>1, <2>1, <2>2, <2>3, <2>4, RewriteKeepsInv
<1> QED BY <1>2, <1>3

\* A call that configures the device, or fails to.
LEMMA ConfigureKeepsInv ==
  ASSUME IInv, NEW f \in Fd, NEW g \in Fd, Managed(f), DevOf[g] = DevOf[f],
         NEW s \in Settings, NEW e \in Entries,
         DevOf[e.fd] = DevOf[f], e.orig = table[Find(f)].orig, e.curr = s,
         Configure(g, s, Find(f), e)
  PROVE  IInv'
<1> USE DEF Configure, Return, world, history
<1> DEFINE i == Find(f)
<1>1. i \in Used /\ table[i].fd = f
  BY FoundSlot DEF IInv
<1> HIDE DEF i
<1>2. CASE Return(-1) /\ UNCHANGED <<table, world, history>>
  <2>1. open' \subseteq Fd
    BY <1>2 DEF IInv, Types
  <2> QED BY <1>2, <2>1, IdleKeepsInv
<1>3. CASE /\ tio' = [tio EXCEPT ![DevOf[g]] = s]
           /\ table' = [table EXCEPT ![Find(f)] = e]
           /\ strange' = strange \ {DevOf[g]}
           /\ Return(0) /\ UNCHANGED <<open, found, orphans>>
  <2>1. /\ table' = [table EXCEPT ![i] = e] /\ e.orig = table[i].orig
        /\ tio' = [tio EXCEPT ![DevOf[f]] = s]
        /\ strange' = strange \ {DevOf[f]}
        /\ UNCHANGED <<init, open, found, orphans>> /\ rval' = 0
    BY <1>3 DEF i
  <2> QED BY <1>1, <2>1, RewriteKeepsInv
<1> QED BY <1>2, <1>3

\* The calls that configure the device.
LEMMA DeviceCallKeepsInv ==
  ASSUME IInv, NEW f \in Fd,
         Reset(f) \/ Apply(f) \/ \E new \in Fd : Replace(f, new)
  PROVE  IInv'
<1> DEFINE t == table[Find(f)]
<1>1. Managed(f)
  BY DEF Reset, Apply, Replace
<1>2. /\ t \in Entries /\ t.fd = f
  BY <1>1, FoundSlot DEF IInv
<1>3. t.orig \in Settings /\ t.curr \in Settings /\ t.next \in Settings
  BY <1>2 DEF Entries
<1>4. CASE Reset(f)
  <2> DEFINE e == Entry(f, t.orig)
  <2>1. e \in Entries /\ e.fd = f /\ e.orig = t.orig /\ e.curr = t.orig
    BY <1>3 DEF Entry, Entries
  <2>2. Configure(f, t.orig, Find(f), e)
    BY <1>4 DEF Reset
  <2> HIDE DEF e
  <2> QED BY <1>1, <1>3, <2>1, <2>2, ConfigureKeepsInv
<1>5. CASE Apply(f)
  <2> DEFINE e == [t EXCEPT !.curr = t.next]
  <2>1. e \in Entries /\ e.fd = f /\ e.orig = t.orig /\ e.curr = t.next
    BY <1>2 DEF Entries
  <2>2. Configure(f, t.next, Find(f), e)
    BY <1>5 DEF Apply
  <2> HIDE DEF e
  <2> QED BY <1>1, <1>3, <2>1, <2>2, ConfigureKeepsInv
<1>6. ASSUME NEW new \in Fd, Replace(f, new)
      PROVE  IInv'
  <2> DEFINE e == [t EXCEPT !.fd = new]
  <2>1. e \in Entries /\ e.fd = new /\ e.orig = t.orig /\ e.curr = t.curr
    BY <1>2 DEF Entries
  <2>2. Configure(new, t.curr, Find(f), e) /\ DevOf[new] = DevOf[f]
    BY <1>6 DEF Replace
  <2> HIDE DEF e
  <2> QED BY <1>1, <1>3, <2>1, <2>2, ConfigureKeepsInv
<1> QED BY <1>4, <1>5, <1>6

\* The calls that look at the table, or at the device.
LEMMA TableCallKeepsInv ==
  ASSUME IInv, NEW f \in Fd, Revert(f) \/ Refresh(f)
  PROVE  IInv'
<1> USE DEF Return, world, history
<1> DEFINE i == Find(f)
           t == table[i]
           s == tio[DevOf[f]]
<1>1. /\ i \in Used /\ t \in Entries /\ t.fd = f /\ DevOf[f] \in Dev
  BY FoundSlot DEF IInv, Revert, Refresh
<1>2. s \in Settings /\ tio = [tio EXCEPT ![DevOf[f]] = s]
  BY <1>1 DEF IInv, Types
<1>3. CASE Revert(f)
  <2> DEFINE e == [t EXCEPT !.next = t.curr]
  <2>1. e \in Entries /\ e.fd = f /\ e.orig = t.orig /\ e.curr = t.curr
    BY <1>1 DEF Entries
  <2>2. /\ table' = [table EXCEPT ![i] = e]
        /\ UNCHANGED <<init, open, tio, strange, found, orphans>> /\ rval' = 0
    BY <1>3 DEF Revert
  <2>3. DevOf[f] \notin strange' => e.curr = s
    BY <1>1, <2>1, <2>2 DEF IInv, CurrIsDevice
  <2>4. tio' = [tio EXCEPT ![DevOf[f]] = s]
    BY <1>2, <2>2
  <2>5. i \in Used /\ s \in Settings /\ table[i].fd = f /\ e.orig = table[i].orig
    BY <1>1, <1>2, <2>1
  <2> HIDE DEF i, e, s
  <2> QED BY <2>1, <2>2, <2>3, <2>4, <2>5, RewriteKeepsInv
<1>4. CASE Refresh(f)
  <2>1. CASE Return(-1) /\ UNCHANGED <<table, world, history>>
    <3>1. open' \subseteq Fd
      BY <2>1 DEF IInv, Types
    <3> QED BY <2>1, <3>1, IdleKeepsInv
  <2>2. CASE /\ table' = [table EXCEPT ![i].curr = s]
             /\ strange' = strange \ {DevOf[f]}
             /\ Return(0) /\ UNCHANGED <<world, found, orphans>>
    <3> DEFINE e == [t EXCEPT !.curr = s]
    <3>1. e \in Entries /\ e.fd = f /\ e.orig = t.orig /\ e.curr = s
      BY <1>1, <1>2 DEF Entries
    <3>2. /\ table' = [table EXCEPT ![i] = e]
          /\ UNCHANGED <<init, open, tio, found, orphans>> /\ rval' = 0
      BY <2>2
    <3>3. tio' = [tio EXCEPT ![DevOf[f]] = s]
      BY <1>2, <3>2
    <3>4. DevOf[f] \notin strange' => e.curr = s
      BY <3>1
    <3>5. strange' \in {strange, strange \ {DevOf[f]}} /\ rval' \in {-1, 0}
      BY <2>2
    <3>6. i \in Used /\ s \in Settings /\ table[i].fd = f
      BY <1>1, <1>2
    <3>7. e.orig = table[i].orig
      BY <3>1
    <3> HIDE DEF i, e, s
    <3> QED BY <3>1, <3>2, <3>3, <3>4, <3>5, <3>6, <3>7, RewriteKeepsInv
  <2> QED BY <1>4, <2>1, <2>2 DEF Refresh
<1> QED BY <1>3, <1>4

\* term_add() and term_set() on a descriptor that is not managed.
LEMMA NewCallKeepsInv ==
  ASSUME IInv, NEW f \in Fd, Add(f) \/ \E r \in Request : SetNew(f, r)
  PROVE  IInv'
<1> USE DEF Return
<1> DEFINE s == tio[DevOf[f]]
           new == Entry(f, s)
<1>1. s \in Settings
  BY TermAssumption DEF IInv, Types
<1>2. new \in Entries /\ new.fd = f /\ new.orig = s /\ new.curr = s
  BY <1>1 DEF Entry, Entries
<1>3. CASE Add(f)
  <2>1. table' = [table EXCEPT ![First(FreeSlots)] = new]
    BY <1>3 DEF Add
  <2> HIDE DEF new
  <2> QED BY <1>2, <1>3, <2>1, InsertKeepsInv DEF Add
<1>4. ASSUME NEW r \in Request, SetNew(f, r)
      PROVE  IInv'
  <2> DEFINE e == [new EXCEPT !.next = AfterSet(new.next, r)]
  <2>1. AfterSet(new.next, r) \in Settings
    BY <1>2, AfterSetKept DEF Entries
  <2>2. e \in Entries /\ e.fd = f /\ e.orig = s /\ e.curr = s
    BY <1>2, <2>1 DEF Entries
  <2>3. CASE Valid(r)
    <3>1. /\ table' = [table EXCEPT ![First(FreeSlots)] = e]
          /\ MayAdd(f) /\ CanAdd(f) /\ Added(f, {})
          /\ UNCHANGED <<init, world>> /\ rval' = 0
      BY <1>4, <2>3 DEF SetNew
    <3> HIDE DEF e
    <3> QED BY <2>2, <3>1, InsertKeepsInv
  <2>4. CASE ~Valid(r)
    <3>1. /\ table' = [table EXCEPT ![First(FreeSlots)] = e, ![0] = Free]
          /\ MayAdd(f) /\ CanAdd(f)
          /\ Added(f, {DevOf[table[i].fd] : i \in Used \cap {0}})
          /\ UNCHANGED <<init, world>> /\ rval' = -1
      BY <1>4, <2>4 DEF SetNew
    <3> HIDE DEF e
    <3> QED BY <2>2, <3>1, ExchangeKeepsInv
  <2> QED BY <2>3, <2>4
<1> QED BY <1>3, <1>4

\* term_remove() and term_erase().
LEMMA OldCallKeepsInv ==
  ASSUME IInv, NEW f \in Fd, Remove(f) \/ Erase(f)
  PROVE  IInv'
<1> USE DEF Return, world
<1> DEFINE i == Find(f)
           d == DevOf[f]
<1>1. i \in Used /\ table[i].fd = f /\ d \in Dev
  BY FoundSlot DEF IInv, Remove, Erase
<1>2. tio = [tio EXCEPT ![d] = tio[d]] /\ found = [found EXCEPT ![d] = found[d]]
  BY DEF IInv, Types
<1>3. CASE Erase(f)
  <2>1. /\ table' = [table EXCEPT ![i] = Free]
        /\ found' = [found EXCEPT ![d] = Nothing]
        /\ UNCHANGED <<init, tio, open, strange, orphans>> /\ rval' = 0
    BY <1>3 DEF Erase
  <2> HIDE DEF i, d
  <2> QED BY <1>1, <2>1, DeleteKeepsInv DEF d
<1>4. CASE Remove(f)
  <2>1. PICK ok \in BOOLEAN :
          /\ tio' = [tio EXCEPT ![d] = IF ok THEN table[i].orig ELSE tio[d]]
          /\ found' = [found EXCEPT ![d] = IF ok THEN found[d] ELSE Nothing]
          /\ rval' = (IF ok THEN 0 ELSE -1)
    BY <1>4 DEF Remove, Outcomes
  <2>2. /\ table' = [table EXCEPT ![i] = Free]
        /\ UNCHANGED <<init, open, strange, orphans>>
    BY <1>4 DEF Remove
  <2>3. \/ tio' = [tio EXCEPT ![d] = table[i].orig] /\ found' = found
        \/ tio' = tio /\ found' = [found EXCEPT ![d] = Nothing]
    BY <1>2, <2>1
  <2>4. rval' \in {-1, 0} /\ d = DevOf[table[i].fd]
    BY <1>1, <2>1
  <2> HIDE DEF i, d
  <2> QED BY <1>1, <2>2, <2>3, <2>4, DeleteKeepsInv
<1> QED BY <1>3, <1>4

\* The functions that set one parameter, and term_set() on a managed
\* descriptor.
LEMMA ParameterCallKeepsInv ==
  ASSUME IInv, NEW f \in Fd, NEW r,
         \/ SetRaw(f)
         \/ SetBaudrate(f, r) \/ SetParity(f, r) \/ SetDatabits(f, r)
         \/ SetFlowcntrl(f, r) \/ SetLocal(f, r) \/ SetHupcl(f, r)
         \/ SetManaged(f, r)
  PROVE  IInv'
<1> DEFINE s == NextOf(f)
<1>1. Managed(f)
  BY DEF SetRaw, SetBaudrate, SetParity, SetDatabits, SetFlowcntrl, SetLocal,
         SetHupcl, SetManaged, SetNext
<1>2. s \in Settings
  BY <1>1, FoundSlot DEF IInv, NextOf, Entries
<1> HIDE DEF s
<1>3. \E valid \in BOOLEAN : \E t : (valid => t \in Settings) /\ SetNext(f, valid, t)
  <2>1. CASE SetRaw(f)
    BY <1>2, <2>1, SettingsKept DEF SetRaw, s
  <2>2. CASE SetBaudrate(f, r)
    <3> DEFINE v == r.baud \in Baudrates
               t == WithBaudrate(s, r.baud)
    <3>1. v \in BOOLEAN /\ (v => t \in Settings)
      BY <1>2, SettingsKept
    <3>2. SetNext(f, v, t)
      BY <2>2 DEF SetBaudrate, s
    <3> HIDE DEF v, t
    <3> QED BY <3>1, <3>2
  <2>3. CASE SetParity(f, r)
    <3> DEFINE v == r.parity \in Parities
               t == WithParity(s, r.parity)
    <3>1. v \in BOOLEAN /\ (v => t \in Settings)
      BY <1>2, SettingsKept
    <3>2. SetNext(f, v, t)
      BY <2>3 DEF SetParity, s
    <3> HIDE DEF v, t
    <3> QED BY <3>1, <3>2
  <2>4. CASE SetDatabits(f, r)
    <3> DEFINE v == r.bits \in 5 .. 8
               t == WithDatabits(s, r.bits)
    <3>1. v \in BOOLEAN /\ (v => t \in Settings)
      BY <1>2, SettingsKept
    <3>2. SetNext(f, v, t)
      BY <2>4 DEF SetDatabits, s
    <3> HIDE DEF v, t
    <3> QED BY <3>1, <3>2
  <2>5. CASE SetFlowcntrl(f, r)
    <3> DEFINE v == r.flow \in FlowControls
               t == WithFlowcntrl(s, r.flow)
    <3>1. v \in BOOLEAN /\ (v => t \in Settings)
      BY <1>2, SettingsKept
    <3>2. SetNext(f, v, t)
      BY <2>5 DEF SetFlowcntrl, s
    <3> HIDE DEF v, t
    <3> QED BY <3>1, <3>2
  <2>6. CASE SetLocal(f, r)
    BY <1>2, <2>6, SettingsKept DEF SetLocal, s
  <2>7. CASE SetHupcl(f, r)
    BY <1>2, <2>7, SettingsKept DEF SetHupcl, s
  <2>8. CASE SetManaged(f, r)
    <3>1. Valid(r) \in BOOLEAN
      BY DEF Valid
    <3> QED BY <1>2, <2>8, <3>1, AfterSetKept DEF SetManaged, s
  <2> QED BY <2>1, <2>2, <2>3, <2>4, <2>5, <2>6, <2>7, <2>8
<1> QED BY <1>3, SetNextKeepsInv

\* The world's steps, and the beginning and end of the program.
LEMMA OtherKeepsInv ==
  ASSUME IInv,
         \/ LibInit \/ Exit
         \/ \E f \in Fd : Open(f) \/ Close(f)
         \/ \E d \in Dev, s \in Foreign : Outside(d, s)
         \/ UNCHANGED vars
  PROVE  IInv'
<1>1. CASE LibInit
  <2>1. /\ table' = [i \in Slot |-> Free]
        /\ ResetAll \/ (~init /\ UNCHANGED <<tio, found>>)
        /\ init' \in BOOLEAN /\ UNCHANGED <<strange, orphans>> /\ rval' = 0
        /\ open' \subseteq Fd
    BY <1>1 DEF LibInit, IInv, Types
  <2> QED BY <2>1, ClearKeepsInv
<1>2. CASE Exit
  <2>1. /\ table' = [i \in Slot |-> Free]
        /\ ResetAll
        /\ init' \in BOOLEAN /\ UNCHANGED <<strange, orphans>> /\ rval' = 0
        /\ open' \subseteq Fd
    BY <1>2 DEF Exit
  <2> QED BY <2>1, ClearKeepsInv
<1>3. ASSUME NEW f \in Fd, Open(f)
      PROVE  IInv'
  <2>1. /\ UNCHANGED <<init, table, tio, strange, found, orphans>>
        /\ open' \subseteq Fd /\ rval' = 0
    BY <1>3 DEF Open, history, IInv, Types
  <2> QED BY <2>1, IdleKeepsInv
<1>4. ASSUME NEW f \in Fd, Close(f)
      PROVE  IInv'
  <2>1. UNCHANGED <<init, table>> /\ open' \subseteq Fd /\ rval' = 0
    BY <1>4 DEF Close, IInv, Types
  <2>2. CASE Estrange(DevOf[f], Default)
    <3>1. DevOf[f] \in Dev /\ Default \in Settings
      BY TermAssumption
    <3> QED BY <2>1, <2>2, <3>1, EstrangeKeepsInv
  <2>3. CASE UNCHANGED <<tio, history>>
    BY <2>1, <2>3, IdleKeepsInv DEF history
  <2> QED BY <1>4, <2>2, <2>3 DEF Close
<1>5. ASSUME NEW d \in Dev, NEW s \in Foreign, Outside(d, s)
      PROVE  IInv'
  <2>1. /\ Estrange(d, s) /\ s \in Settings
        /\ UNCHANGED <<init, table>> /\ open' \subseteq Fd /\ rval' = 0
    BY <1>5, TermAssumption DEF Outside, IInv, Types
  <2> QED BY <2>1, EstrangeKeepsInv
<1>6. CASE UNCHANGED vars
  <2>1. /\ UNCHANGED <<init, table, tio, strange, found, orphans>>
        /\ open' \subseteq Fd /\ rval' \in {-1, 0}
    BY <1>6 DEF vars, IInv, Types
  <2> QED BY <2>1, IdleKeepsInv
<1> QED BY <1>1, <1>2, <1>3, <1>4, <1>5, <1>6

LEMMA TermInvariant == Spec => []IInv
<1>1. Init => IInv
  <2> SUFFICES ASSUME Init
               PROVE  IInv
    OBVIOUS
  <2>1. Used = {} /\ \A d \in Dev : found[d] = Nothing
    BY DEF Init, Used
  <2>2. Types
    BY TermAssumption DEF Init, Types
  <2> QED
    BY <2>1, <2>2 DEF IInv, EmptyAtFirst, OneOnDev, OrigIsFound, Restored, CurrIsDevice
<1>2. IInv /\ [Next]_vars => IInv'
  <2> SUFFICES ASSUME IInv, [Next]_vars
               PROVE  IInv'
    OBVIOUS
  <2>1. ASSUME NEW f \in Fd, Call(f)
        PROVE  IInv'
    <3>1. CASE \/ SetRaw(f)
               \/ \E r \in Request :
                    \/ SetBaudrate(f, r) \/ SetParity(f, r) \/ SetDatabits(f, r)
                    \/ SetFlowcntrl(f, r) \/ SetLocal(f, r) \/ SetHupcl(f, r)
                    \/ SetManaged(f, r)
      BY <3>1, ParameterCallKeepsInv
    <3> QED
      BY <2>1, <3>1, DeviceCallKeepsInv, TableCallKeepsInv, NewCallKeepsInv, OldCallKeepsInv
      DEF Call
  <2> QED BY <2>1, OtherKeepsInv DEF Next
<1> QED BY <1>1, <1>2, PTL DEF Spec

\* No call, failing or not, takes a variable out of the range its C type and
\* use give it or puts a descriptor in two slots.
THEOREM TypeCorrect == Spec => []TypeOK
<1>1. IInv => TypeOK
  BY DEF IInv, Types, TypeOK, OneOnDev
<1> QED BY <1>1, TermInvariant, PTL

\* A device that is no longer managed has the settings it was found with,
\* unless it was erased, the reset that was due failed, or a failed term_set()
\* of another descriptor took it out of the table.
THEOREM OriginalsRestored == Spec => []Restored
<1>1. IInv => Restored
  BY DEF IInv
<1> QED BY <1>1, TermInvariant, PTL

\* currtermios is what the device is set to, whichever calls failed.
THEOREM CurrentSettingsKnown == Spec => []CurrIsDevice
<1>1. IInv => CurrIsDevice
  BY DEF IInv
<1> QED BY <1>1, TermInvariant, PTL

\* A call that fails changes no device and no settings kept for one, and with
\* slot 0 free it adds nothing and takes no other device out of the table.
THEOREM FailuresKeepEntries == Spec => FailureKeepsEntries
<1> DEFINE Kept == rval' = -1 => /\ \A i \in Used : table'[i] \in {table[i], Free}
                                 /\ tio' = tio
                                 /\ 0 \in Slot \ Used =>
                                      /\ \A i \in Slot \ Used : table'[i] = Free
                                      /\ orphans' \subseteq orphans
<1>1. IInv /\ [Next]_vars => [Kept]_vars
  <2> SUFFICES ASSUME IInv, Next, rval' = -1
               PROVE  Kept
    OBVIOUS
  <2> USE DEF Return, world, history
  <2>1. PICK f \in Fd : Call(f)
    BY DEF Next, LibInit, Exit, Open, Close, Outside
  <2>2. CASE UNCHANGED <<table, tio, orphans>>
    BY <2>2 DEF Used
  <2>3. CASE Remove(f)
    <3>1. PICK ok \in BOOLEAN :
            /\ tio' = [tio EXCEPT ![DevOf[f]] = IF ok THEN table[Find(f)].orig ELSE @]
            /\ rval' = (IF ok THEN 0 ELSE -1)
      BY <2>3 DEF Remove, Outcomes
    <3>2. tio' = tio
      BY <3>1 DEF IInv, Types
    <3>3. table' = [table EXCEPT ![Find(f)] = Free] /\ orphans' = orphans
      BY <2>3 DEF Remove
    <3> QED BY <3>2, <3>3 DEF IInv, Types, Used
  <2>4. ASSUME NEW r \in Request, SetNew(f, r)
        PROVE  Kept
    <3>1. tio' = tio
      BY <2>4 DEF SetNew
    <3>2. PICK e : table' = [table EXCEPT ![First(FreeSlots)] = e, ![0] = Free]
      BY <2>4 DEF SetNew
    <3>3. First(FreeSlots) \in Slot \ Used
      BY <2>4, FirstIsIn DEF SetNew, CanAdd, FreeSlots, Used
    <3>4. \A i \in Used : table'[i] \in {table[i], Free}
      BY <3>2, <3>3 DEF IInv, Types, Used
    <3>5. ASSUME 0 \in Slot \ Used
          PROVE  (\A i \in Slot \ Used : table'[i] = Free) /\ orphans' \subseteq orphans
      <4>1. First(FreeSlots) = 0
        <5>1. 0 \in FreeSlots /\ FreeSlots \subseteq Slot
          BY <3>5 DEF FreeSlots, Used
        <5>2. First(FreeSlots) \in FreeSlots /\ \A j \in FreeSlots : First(FreeSlots) <= j
          BY <5>1, FirstIsIn
        <5>3. First(FreeSlots) \in Slot /\ First(FreeSlots) <= 0
          BY <5>1, <5>2
        <5>4. First(FreeSlots) \in Nat
          BY <5>3, TermAssumption DEF Slot
        <5> HIDE DEF Kept
        <5> QED BY <5>3, <5>4
      <4>2. \A i \in Slot \ Used : table'[i] = Free
        BY <3>2, <4>1 DEF IInv, Types, Used
      <4>3. \A i \in Used \cap {0} : FALSE
        BY <3>5
      <4>4. orphans' \subseteq orphans
        BY <2>4, <4>3 DEF SetNew, Added
      <4> QED BY <4>2, <4>4
    <3> QED BY <3>1, <3>4, <3>5
  <2> QED
    BY <2>1, <2>2, <2>3, <2>4
    DEF Call, Add, Erase, Reset, Apply, Revert, Refresh, Replace, Configure, SetNext,
        SetRaw, SetBaudrate, SetParity, SetDatabits, SetFlowcntrl, SetLocal, SetHupcl,
        SetManaged
<1> QED BY <1>1, TermInvariant, PTL DEF Spec, FailureKeepsEntries
=============================================================================
