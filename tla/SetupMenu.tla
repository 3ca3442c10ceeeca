----------------------------- MODULE SetupMenu -----------------------------
(* The setup word and the options of bitstreamout.c on their way through    *)
(* VDR's setup file, SetupParse(), the two menus (Set() and Store() of      *)
(* cMenuSetupBSO and cDisplayMainMenu) and Activate(true) of the two parts  *)
(* that open the sound card with these options.  VDR, which keeps the file  *)
(* and calls SetupParse() for its entries, is external.                     *)
EXTENDS Naturals

CONSTANTS Parts,        \* the parts that open the card: live, replay
          Device,       \* numbers of the sound devices
          Works,        \* the devices that can be opened
          Delay,        \* values of PCMinit in menu and file
          Files         \* the entries the setup file starts with

Mp2Out == <<"Round", "Dither", "Nonlinear">>
Bits == {"ACTIVE", "MP2ENABLE", "MP2DITHER", "MP2SPDIF", "RESET"}
Option == [device : Device, mdelay : Nat \ 0..3]
Shown == [active : BOOLEAN, mp2enable : BOOLEAN, mp2spdif : 0..2, opt : Option]

VARIABLES setup,        \* setup.flags
          opt,          \* setup.opt
          active,       \* cBitStreamOut::active, not set by the constructor
          dolby,        \* VDR's transfer mode for Dolby Digital
          file,         \* VDR's setup file: a function from names to values
          todo,         \* entries SetupParse() has not been called for
          pc,           \* the main thread: which menu, which step of Store()
          menu,         \* the values the open menu shows
          stored,       \* the setup last stored with a menu, or none
          part,         \* what each part does in Activate(true) and Open()
          failed,       \* flag FAILED of each part
          seen          \* the device each part has read in Open(), 2 outside of it

options == <<setup, opt, active, dolby>>
disk == <<file, todo, stored>>
screen == <<pc, menu>>
parts == <<part, failed, seen>>
vars == <<options, disk, screen, parts>>

None == [active |-> FALSE]
TypeOK ==
  /\ setup \subseteq Bits /\ opt \in Option
  /\ active \in BOOLEAN /\ dolby \in BOOLEAN
  /\ todo \subseteq DOMAIN file
  /\ pc \in {"none", "setup", "main", "flags", "end"}
  /\ menu \in Shown \cup {None} /\ stored \in Shown \cup {None}
  /\ part \in [Parts -> {"off", "reset", "start", "open", "try", "play"}]
  /\ failed \in [Parts -> BOOLEAN] /\ seen \in [Parts -> Device]

\* setup.flags with the bits of Mp2Out number n as SetupParse() and
\* cDisplayMainMenu::Set() make them, and as all the others do.
WithSpdif(flags, n) ==
  (flags \ {"MP2DITHER", "MP2SPDIF"})
    \cup (IF n = 0 THEN {} ELSE {"MP2DITHER"})
    \cup (IF n = 2 THEN {"MP2SPDIF"} ELSE {})
WithOnly(flags, n) == WithSpdif(flags, n) \ (IF n = 2 THEN {"MP2DITHER"} ELSE {})
WithBit(flags, b, on) == IF on THEN flags \cup {b} ELSE flags \ {b}

\* What the scanner of mp2.c does with Mpeg audio.
Mode == IF "MP2SPDIF" \in setup THEN 2 ELSE IF "MP2DITHER" \in setup THEN 1 ELSE 0
InUse == [active |-> "ACTIVE" \in setup, mp2enable |-> "MP2ENABLE" \in setup,
          mp2spdif |-> Mode, opt |-> opt]

\* The static data of the plugin, and VDR's default of the transfer mode.
Fresh ==
  /\ setup' = {"ACTIVE", "MP2DITHER", "MP2ENABLE"}
  /\ opt' = [device |-> 2, mdelay |-> 7]
  /\ active' \in BOOLEAN /\ dolby' = TRUE
  /\ part' = [p \in Parts |-> "off"] /\ failed' = [p \in Parts |-> FALSE]
  /\ seen' = [p \in Parts |-> 2]
Init ==
  /\ setup = {"ACTIVE", "MP2DITHER", "MP2ENABLE"}
  /\ opt = [device |-> 2, mdelay |-> 7] /\ seen = [p \in Parts |-> 2]
  /\ active \in BOOLEAN /\ dolby = TRUE
  /\ file \in Files /\ todo = DOMAIN file
  /\ pc = "none" /\ menu = None /\ stored = None
  /\ part = [p \in Parts |-> "off"] /\ failed = [p \in Parts |-> FALSE]

----------------------------------------------------------------------------
(* SetupParse(): one call per entry, in any order but for the entry an old  *)
(* version has left, which is older than the one that replaced it.          *)

\* Mutant: a choice that is parsed only clears the bit.
ParseRound(flags, n) == WithSpdif(flags, 0)
ParseBits(flags, n) == WithSpdif(flags, n)

\* One entry into the setup word.
Parsed(n, v) ==
  CASE n = "Active" -> WithBit(setup, "ACTIVE", v)
    [] n = "Mp2Enable" -> WithBit(setup, "MP2ENABLE", v)
    [] n = "Mp2Dither" -> WithBit(setup, "MP2DITHER", v)
    [] n = "Mp2Out" -> ParseBits(setup, v)
    [] OTHER -> setup
\* Mutant: the number of initial frames is taken as it is.
ParsedFew(n, v) == CASE n = "PCMinit" -> [opt EXCEPT !.mdelay = v]
                     [] n = "Device" -> [opt EXCEPT !.device = v]
                     [] OTHER -> opt
\* One entry into the options; too few initial frames are made four.
ParsedOption(n, v) ==
  LET o == CASE n = "PCMinit" -> [opt EXCEPT !.mdelay = v]
             [] n = "Device" -> [opt EXCEPT !.device = v]
             [] OTHER -> opt
  IN  IF o.mdelay < 4 THEN [o EXCEPT !.mdelay = 4] ELSE o
SetupParse(n) ==
  /\ n = "Mp2Out" => "Mp2Dither" \notin todo
  /\ todo' = todo \ {n}
  /\ setup' = Parsed(n, file[n]) /\ opt' = ParsedOption(n, file[n])
  /\ active' = IF n = "Active" THEN file[n] ELSE active
  /\ dolby' = ~active'
  /\ UNCHANGED <<file, stored, screen, parts>>

----------------------------------------------------------------------------
(* The menus: Set() when one is opened, Store() when it is left with Ok.    *)

ShownChoice == Mode
\* Set() writes the bits it has just read back, and sets the transfer mode.
Set(which) ==
  /\ pc = "none" /\ todo = {} /\ pc' = which
  /\ menu' = [InUse EXCEPT !.mp2spdif = ShownChoice]
  /\ setup' = IF which = "main" THEN WithSpdif(setup, ShownChoice) ELSE WithOnly(setup, ShownChoice)
  /\ dolby' = ("ACTIVE" \notin setup)
  /\ UNCHANGED <<opt, active, disk, parts>>
\* The viewer changes a value; only the setup menu has the device.
Edit ==
  /\ \/ pc \in {"setup", "main"}
        /\ \/ \E b \in BOOLEAN : menu' = [menu EXCEPT !.active = b]
           \/ \E b \in BOOLEAN : menu' = [menu EXCEPT !.mp2enable = b]
           \/ \E n \in 0..2 : menu' = [menu EXCEPT !.mp2spdif = n]
           \/ \E d \in {x \in Delay : x >= 4} : menu' = [menu EXCEPT !.opt.mdelay = d]
     \/ pc = "setup" /\ \E d \in Device : menu' = [menu EXCEPT !.opt.device = d]
  /\ UNCHANGED <<options, disk, pc, parts>>
Leave ==
  /\ pc \in {"setup", "main"} /\ pc' = "none" /\ menu' = None
  /\ UNCHANGED <<options, disk, parts>>

\* The options first, then the bits of the setup word.
StoreValues ==
  \/ /\ pc \in {"setup", "main"} /\ pc' = "flags" /\ opt' = menu.opt
     /\ UNCHANGED <<setup, menu, active, dolby, disk, parts>>
  \/ /\ pc = "flags" /\ pc' = "end"
     /\ setup' = WithOnly(WithBit(WithBit(setup, "ACTIVE", menu.active),
                                  "MP2ENABLE", menu.mp2enable), menu.mp2spdif)
     /\ UNCHANGED <<opt, menu, active, dolby, disk, parts>>
\* The entries SetupStore() makes; others stay in the file.
Entries(m) == [Active |-> m.active, Mp2Enable |-> m.mp2enable, Mp2Out |-> m.mp2spdif,
               PCMinit |-> m.opt.mdelay, Device |-> m.opt.device]
Updated(f, e) == [n \in DOMAIN f \cup DOMAIN e |-> IF n \in DOMAIN e THEN e[n] ELSE f[n]]
\* Mutant: the transfer mode stays as it was.
EndSameMode ==
  /\ pc = "end" /\ pc' = "none" /\ menu' = None
  /\ setup' = setup \cup {"RESET"}
  /\ file' = Updated(file, Entries(menu)) /\ stored' = menu
  /\ UNCHANGED <<opt, active, dolby, todo, parts>>
\* RESET and the transfer mode, and VDR writes the file.
StoreEnd ==
  /\ pc = "end" /\ pc' = "none" /\ menu' = None
  /\ setup' = setup \cup {"RESET"} /\ dolby' = ~menu.active
  /\ file' = Updated(file, Entries(menu)) /\ stored' = menu
  /\ UNCHANGED <<opt, active, todo, parts>>
\* Mutant: RESET is raised with the bits, before the new options are written.
StoreLate ==
  \/ /\ pc \in {"setup", "main"} /\ pc' = "flags" /\ setup' = setup \cup {"RESET"}
     /\ UNCHANGED <<opt, menu, active, dolby, disk, parts>>
  \/ /\ pc = "flags" /\ pc' = "end" /\ opt' = menu.opt
     /\ UNCHANGED <<setup, menu, active, dolby, disk, parts>>
  \/ /\ pc = "end" /\ pc' = "none" /\ menu' = None
     /\ file' = Updated(file, Entries(menu)) /\ stored' = menu
     /\ UNCHANGED <<setup, opt, active, dolby, todo, parts>>
Store == StoreValues \/ StoreEnd

\* VDR ends, or crashes, at any step, and is started again.
Restart ==
  /\ Fresh /\ todo' = DOMAIN file
  /\ pc' = "none" /\ menu' = None /\ UNCHANGED <<file, stored>>

----------------------------------------------------------------------------
(* Activate(true) and Open() of the live stream and of the replay.          *)

PartGoes(p, from, to) == part[p] = from /\ part' = [part EXCEPT ![p] = to]
CardOpen == \E p \in Parts : part[p] = "play"
TestReset(p) ==
  /\ todo = {} /\ "ACTIVE" \in setup /\ ~CardOpen
  /\ PartGoes(p, "off", IF "RESET" \in setup THEN "reset" ELSE "start")
  /\ failed' = [failed EXCEPT ![p] = @ /\ "RESET" \notin setup]
  /\ UNCHANGED <<options, disk, screen, seen>>
TakeReset(p) ==
  /\ PartGoes(p, "reset", "start") /\ setup' = setup \ {"RESET"}
  /\ UNCHANGED <<opt, active, dolby, disk, screen, failed, seen>>
StartThread(p) ==
  /\ PartGoes(p, "start", IF failed[p] THEN "off" ELSE "open")
  /\ UNCHANGED <<options, disk, screen, failed, seen>>
ReadOptions(p) ==
  /\ PartGoes(p, "open", "try") /\ seen' = [seen EXCEPT ![p] = opt.device]
  /\ UNCHANGED <<options, disk, screen, failed>>
OpenDone(p) ==
  /\ PartGoes(p, "try", IF seen[p] \in Works THEN "play" ELSE "off")
  /\ failed' = [failed EXCEPT ![p] = seen[p] \notin Works]
  /\ seen' = [seen EXCEPT ![p] = 2]
  /\ UNCHANGED <<options, disk, screen>>
SwitchOff(p) ==
  /\ PartGoes(p, "play", "off") /\ UNCHANGED <<options, disk, screen, failed, seen>>
\* A zap clears the live stream, and with it FAILED.
ClearStream(p) ==
  /\ p = "live" /\ part[p] = "off" /\ failed[p] /\ failed' = [failed EXCEPT ![p] = FALSE]
  /\ UNCHANGED <<options, disk, screen, part, seen>>

Activate(p) == TestReset(p) \/ TakeReset(p) \/ StartThread(p)
Open(p) == ReadOptions(p) \/ OpenDone(p)
Next ==
  \/ \E n \in todo : SetupParse(n)
  \/ \E which \in {"setup", "main"} : Set(which)
  \/ Edit \/ Leave \/ Store \/ Restart
  \/ \E p \in Parts : Activate(p) \/ Open(p) \/ SwitchOff(p) \/ ClearStream(p)
Spec == Init /\ [][Next]_vars

----------------------------------------------------------------------------
\* The setup the viewer has stored is the one in use, whatever menu is looked
\* at or left half way afterwards, and also after VDR was started again: the
\* file has other entries, an old one among them, and three functions of
\* bitstreamout.c make the bits of Mp2Out differently.
StoredIsUsed ==
  (todo = {} /\ pc \in {"none", "setup", "main"} /\ stored # None) => InUse = stored

\* Once a setup was stored, the transfer mode VDR uses for Dolby Digital is
\* the opposite of ACTIVE, although SetupParse() sets it with every entry, also
\* with those that come before `Active'.
TransferFollows ==
  (todo = {} /\ pc \in {"none", "setup", "main"} /\ stored # None)
     => dolby = ("ACTIVE" \notin setup)

\* Allow to reset a failed state after new options: a part that has failed
\* tries again with options that work, since RESET is still there for it.
FailedTriesAgain ==
  \A p \in Parts :
    (pc = "none" /\ stored # None /\ part[p] = "off" /\ failed[p] /\ opt.device \in Works)
      => "RESET" \in setup
=============================================================================
