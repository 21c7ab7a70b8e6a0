-------------------------------- MODULE Daemon --------------------------------
(***************************************************************************)
(* client/efikampd.c: the daemon's loop, its menu, and what it writes to   *)
(* the panel.  The daemon has one thread; a command, an event or a write   *)
(* is one step, and MPD, the clock and the serial line (all external) act  *)
(* between the steps.                                                      *)
(*                                                                         *)
(* The linked lists of the menu are sequences of texts: menu[p] is the     *)
(* list below the entry p, and an entry is the path of positions that      *)
(* leads to it, <<1>> being Library and <<2>> Radio.  So "prev", "next",   *)
(* "parent" and "child" are neighbouring paths, and NULL is the empty one. *)
(* Of MPD's answers only names and the player's state matter; the texts    *)
(* are numbers, in the order of strcmp().                                  *)
(***************************************************************************)
EXTENDS Integers, SequencesExt

CONSTANTS Library,    \* the states of MPD's database, one after the other
          Stations,   \* the stations in radio.csv
          Dims,       \* the dim values of the keys that are pressed
          KeysMax     \* bound: commands read in one turn of the loop

NULL == <<>>

\* A database is a sequence of [name, sub]: artists, their albums, their
\* songs.
Names(data) == [i \in DOMAIN data |-> data[i].name]
Sub(data, name) ==
  LET hits == {i \in DOMAIN data : data[i].name = name}
  IN  IF hits = {} THEN <<>> ELSE data[CHOOSE i \in hits : TRUE].sub

\* MPD lists no artist without an album and no album without a song.
Text == Nat
Songs == Seq([name : Text]) \ {<<>>}
Albums == Seq([name : Text, sub : Songs]) \ {<<>>}
Artists == Seq([name : Text, sub : Albums])

ASSUME DaemonAssumption ==
  /\ Library \in Seq(Artists) \ {<<>>}
  /\ Stations \in Seq(Text)
  /\ Dims \subseteq {0, 2}
  /\ KeysMax \in Nat \ {0}

VARIABLES menu,       \* the menu below top_menu
          pmenu,      \* ctx.pmenu
          marker,     \* ctx.lcd.marker_pos
          state,      \* ctx.state
          buffer,     \* ctx.lcd.buffer
          pending,    \* ctx.lcd.update_flags, the set of its bits
          dim,        \* ctx.lcd.dim_value
          crash,      \* "no", or why a null pointer was used
          pc,         \* where the loop is
          keys,       \* commands handled in this turn
          player,     \* MPD's player
          db,         \* which of Library MPD has
          known,      \* the player and the db that libmpd knows of
          same        \* history: buffer is what the panel was last sent

browsing == <<menu, pmenu, marker>>
display == <<buffer, pending, same>>
loop == <<crash, pc, keys>>
mpd == <<player, db>>
vars == <<browsing, state, display, dim, loop, known, mpd>>

\* menu_init()
Top == <<0, 1>>
NoMenu == [p \in {NULL} |-> Top]

\* Lines of the display.
BlankLine == <<"blank">>
MenuLine(marked, text) == <<"menu", marked, text>>
BlankLines == <<BlankLine, BlankLine>>
TitleLines == <<<<"title">>, BlankLine>>
SongLines == <<<<"song">>, <<"position">>>>

Lines == {"line1", "line2"}

Init ==
  /\ menu = NoMenu
  /\ pmenu = NULL
  /\ marker = 0
  /\ state = "IDLE"
  /\ buffer = TitleLines
  /\ pending = Lines
  /\ dim = 0
  /\ crash = "no"
  /\ pc = "time"
  /\ keys = 0
  /\ player = "stop"
  /\ db = 1
  /\ known = [player |-> "stop", db |-> 1]
  /\ same = FALSE

Running == crash = "no"

-----------------------------------------------------------------------------
(* Lists.  *)

Siblings(p) == menu[Front(p)]
TextOf(p) == Siblings(p)[Last(p)]
HasPrev(p) == Last(p) > 1
HasNext(p) == Last(p) < Len(Siblings(p))
PrevOf(p) == Append(Front(p), Last(p) - 1)
NextOf(p) == Append(Front(p), Last(p) + 1)
Parent(p) == Front(p)
Child(p) == Append(p, 1)

IsLibrary(p) == p = <<1>>
IsRadio(p) == p = <<2>>
IsArtist(p) == p[1] = 1 /\ Len(p) = 2
IsAlbum(p) == p[1] = 1 /\ Len(p) = 3
IsSong(p) == (p[1] = 1 /\ Len(p) = 4) \/ (p[1] = 2 /\ Len(p) = 2)

\* A plausible bug: the new entry goes behind the one the search stops at.
InsertBehind(list, text) ==
  LET stops == {i \in DOMAIN list : list[i] >= text}
  IN  IF stops = {} THEN Append(list, text) ELSE InsertAt(list, Min(stops) + 1, text)

\* menu_populate() with sort: in front of the first that is not smaller.
Insert(list, text) ==
  LET stops == {i \in DOMAIN list : list[i] >= text}
  IN  IF stops = {} THEN Append(list, text) ELSE InsertAt(list, Min(stops), text)

\* menu_populate(): without sort always in front of all others.
Populate(data, sort) ==
  FoldLeft(LAMBDA list, text : IF sort THEN Insert(list, text) ELSE <<text>> \o list,
           <<>>, Names(data))

\* What menu_fetch_artists(), _albums() and _songs() get from MPD when it
\* answers; CmdSelectUnanswered is the query that fails.
Answer(p) ==
  LET artists == Library[db] IN
  IF IsLibrary(p) THEN artists
  ELSE IF IsArtist(p) THEN Sub(artists, TextOf(p))
  ELSE Sub(Sub(artists, TextOf(Parent(p))), TextOf(p))

\* The list a handler makes below p.  The stations stay in their order.
ListBelow(p) == IF IsRadio(p) THEN Stations ELSE Populate(Answer(p), IsLibrary(p))

\* Songs are fetched again each time, the other lists only once.
IsFetched(p) == p \in DOMAIN menu /\ ~IsAlbum(p)

-----------------------------------------------------------------------------
(* The display.  *)

\* lcd_update() with the menu open.
MenuLines(p, mark) ==
  IF mark = 0
    THEN <<MenuLine(TRUE, TextOf(p)),
           IF HasNext(p) THEN MenuLine(FALSE, TextOf(NextOf(p))) ELSE BlankLine>>
    ELSE <<MenuLine(FALSE, TextOf(PrevOf(p))), MenuLine(TRUE, TextOf(p))>>

\* lcd_update_status() over what the lines held: a pause leaves the first,
\* and without a current song a playing state leaves both.
StatusLines(st, held) ==
  CASE st = "PLAY" -> {held, SongLines}
    [] st = "PAUSE" -> {<<held[1], <<"pause">>>>}
    [] st \in {"IDLE", "STOPPED"} -> {TitleLines}
    [] st = "STDBY" -> {<<BlankLine, <<"clock">>>>}

Show(lines) ==
  /\ buffer' = lines
  /\ same' = (same /\ lines = buffer)

\* lcd_update(), for a menu, state and cursor that may have changed.  With
\* the menu open it assigns update_flags, otherwise it adds to it.
LcdUpdate(st, p, mark) ==
  IF p # NULL
    THEN /\ Show(MenuLines(p, mark))
         /\ pending' = Lines
    ELSE /\ \E lines \in StatusLines(st, buffer) : Show(lines)
         /\ pending' = pending \union Lines

\* lcd_clear() assigns update_flags too.
LcdClear == Show(BlankLines) /\ pending' = Lines

-----------------------------------------------------------------------------
(* handle_command(), one action for each command or case of one.  Codes    *)
(* that remote_key_map does not have, and commands it gives to no key or   *)
(* that nothing handles, change nothing.                                   *)

KeyRead ==
  /\ pc = "read"
  /\ Running
  /\ keys < KeysMax
  /\ keys' = keys + 1
  /\ UNCHANGED <<pc, known>>

\* CMD_NEXT without a menu goes to MPD; in it, it does nothing.
CmdNext ==
  /\ KeyRead
  /\ player' \in (IF pmenu = NULL THEN {player, "stop"} ELSE {player})
  /\ UNCHANGED <<browsing, state, display, dim, crash, db>>

CmdPrev ==
  /\ KeyRead
  /\ IF pmenu = NULL
       THEN player' \in {player, "stop"} /\ UNCHANGED <<pmenu, marker>>
       ELSE pmenu' = Parent(pmenu) /\ marker' = 0 /\ UNCHANGED player
  /\ LcdUpdate(state, pmenu', marker')
  /\ UNCHANGED <<menu, state, dim, crash, db>>

\* The player may have nothing to play, or nothing to pause, and what MPD is
\* told here and elsewhere may fail, which the daemon does not look at.
CmdPlay ==
  /\ KeyRead
  /\ pmenu = NULL
  /\ IF state # "PLAY"
       THEN player' \in {player, "play"}
       ELSE player' \in {player, CASE player = "play" -> "pause"
                                   [] player = "pause" -> "play"
                                   [] player = "stop" -> "stop"}
  /\ UNCHANGED <<browsing, state, display, dim, crash, db>>

\* menu_select_song() and menu_play_album(): the menu is left and the state
\* set, whether MPD can play what was chosen or not.
PlaySelected ==
  /\ player' \in {player, "play", "stop"}
  /\ state' = "PLAY"
  /\ pmenu' = NULL

\* menu_play(): the display stays blank until the next lcd_update().
CmdPlayMenu ==
  /\ KeyRead
  /\ pmenu # NULL
  /\ IF IsAlbum(pmenu) \/ IsSong(pmenu)
       THEN PlaySelected
       ELSE UNCHANGED <<player, state, pmenu>>
  /\ LcdClear
  /\ marker' = 0
  /\ UNCHANGED <<menu, dim, crash, db>>

\* CMD_STDBY and CMD_TUNER
CmdStdby ==
  /\ KeyRead
  /\ IF state # "STDBY"
       THEN state' = "STDBY" /\ pmenu' = NULL /\ player' \in {player, "stop"}
       ELSE state' = "IDLE" /\ UNCHANGED <<pmenu, player>>
  /\ LcdUpdate(state', pmenu', marker)
  /\ UNCHANGED <<menu, marker, dim, crash, db>>

CmdMenu ==
  /\ KeyRead
  /\ pmenu' = <<1>>
  /\ marker' = IF pmenu # <<1>> THEN 0 ELSE marker
  /\ LcdUpdate(state, pmenu', marker')
  /\ UNCHANGED <<menu, state, dim, crash, mpd>>

\* menu_select() of a song or station.
CmdSelectSong ==
  /\ KeyRead
  /\ pmenu # NULL
  /\ IsSong(pmenu)
  /\ PlaySelected
  /\ marker' = 0
  /\ \E lines \in StatusLines("PLAY", BlankLines) : Show(lines)
  /\ pending' = Lines
  /\ UNCHANGED <<menu, dim, crash, db>>

\* menu_select() of an entry with a list below it, which is fetched first
\* if it must be.
CmdSelectList ==
  /\ KeyRead
  /\ pmenu # NULL
  /\ ~IsSong(pmenu)
  /\ IsFetched(pmenu) \/ ListBelow(pmenu) # <<>>
  /\ LET list == IF IsFetched(pmenu) THEN menu[pmenu] ELSE ListBelow(pmenu)
     IN  /\ menu' = [p \in DOMAIN menu \union {pmenu} |->
                       IF p = pmenu THEN list ELSE menu[p]]
         /\ Show(<<MenuLine(TRUE, list[1]),
                    IF Len(list) > 1 THEN MenuLine(FALSE, list[2]) ELSE BlankLine>>)
  /\ pmenu' = Child(pmenu)
  /\ marker' = 0
  /\ pending' = Lines
  /\ UNCHANGED <<state, dim, crash, mpd>>

\* Without an entry to list menu_populate() and menu_fetch_radio() use the
\* null pointer prev of the guard element, or p.
CmdSelectNothing ==
  /\ KeyRead
  /\ pmenu # NULL
  /\ ~IsSong(pmenu)
  /\ ~IsFetched(pmenu)
  /\ ListBelow(pmenu) = <<>>
  /\ crash' = "empty"
  /\ UNCHANGED <<browsing, state, display, dim, mpd>>

\* The query fails, for the connection is lost or MPD reports an error, and
\* gives a null pointer, which no menu_fetch_ function looks at.
\* menu_populate() takes it for an answer without an entry.
CmdSelectUnanswered ==
  /\ KeyRead
  /\ pmenu # NULL
  /\ ~IsSong(pmenu)
  /\ ~IsFetched(pmenu)
  /\ ~IsRadio(pmenu)
  /\ crash' = "unanswered"
  /\ UNCHANGED <<browsing, state, display, dim, mpd>>

\* menu_fetch_radio() cannot open radio.csv; the menu is left.
CmdSelectNoRadio ==
  /\ KeyRead
  /\ IsRadio(pmenu)
  /\ ~IsFetched(pmenu)
  /\ pmenu' = NULL
  /\ marker' = 0
  /\ \E lines \in StatusLines(state, BlankLines) : Show(lines)
  /\ pending' = Lines
  /\ UNCHANGED <<menu, state, dim, crash, mpd>>

CmdUp ==
  /\ KeyRead
  /\ pmenu # NULL
  /\ HasPrev(pmenu)
  /\ pmenu' = PrevOf(pmenu)
  /\ marker' = IF marker = 1 THEN 0 ELSE marker
  /\ LcdUpdate(state, pmenu', marker')
  /\ UNCHANGED <<menu, state, dim, crash, mpd>>

\* A plausible bug: the marker always moves down.
CmdDownMarkerGrows ==
  /\ KeyRead
  /\ pmenu # NULL
  /\ HasNext(pmenu)
  /\ pmenu' = NextOf(pmenu)
  /\ marker' = marker + 1
  /\ LcdUpdate(state, pmenu', marker')
  /\ UNCHANGED <<menu, state, dim, crash, mpd>>

\* A plausible bug: the display is updated only when the marker moves.
CmdDownSilent ==
  /\ KeyRead
  /\ pmenu # NULL
  /\ HasNext(pmenu)
  /\ pmenu' = NextOf(pmenu)
  /\ IF marker = 0
       THEN marker' = 1 /\ LcdUpdate(state, pmenu', marker')
       ELSE UNCHANGED <<marker, display>>
  /\ UNCHANGED <<menu, state, dim, crash, mpd>>

CmdDown ==
  /\ KeyRead
  /\ pmenu # NULL
  /\ HasNext(pmenu)
  /\ pmenu' = NextOf(pmenu)
  /\ marker' = IF marker = 0 THEN 1 ELSE marker
  /\ LcdUpdate(state, pmenu', marker')
  /\ UNCHANGED <<menu, state, dim, crash, mpd>>

\* CMD_DIM and CMD_BRIGHT assign update_flags.
CmdDim(value) ==
  /\ KeyRead
  /\ dim' = value
  /\ pending' = {"dim"}
  /\ UNCHANGED <<browsing, state, buffer, same, crash, mpd>>

HandleCommand ==
  \/ CmdNext
  \/ CmdPrev
  \/ CmdPlay
  \/ CmdPlayMenu
  \/ CmdStdby
  \/ CmdMenu
  \/ CmdSelectSong
  \/ CmdSelectList
  \/ CmdSelectNothing
  \/ CmdSelectUnanswered
  \/ CmdSelectNoRadio
  \/ CmdUp
  \/ CmdDown
  \/ \E value \in Dims : CmdDim(value)

-----------------------------------------------------------------------------
(* The rest of loop().  *)

At(from, to) == pc = from /\ pc' = to /\ Running

\* A plausible bug: the display is brought up to date only without a menu.
NewSecondNotInMenu ==
  /\ At("time", "read")
  /\ IF pmenu = NULL THEN LcdUpdate(state, pmenu, marker) ELSE UNCHANGED display
  /\ UNCHANGED <<browsing, state, dim, crash, keys, known, mpd>>

\* A second has begun since the last turn: update_time().
NewSecond ==
  /\ At("time", "read")
  /\ LcdUpdate(state, pmenu, marker)
  /\ UNCHANGED <<browsing, state, dim, crash, keys, known, mpd>>

SameSecond ==
  /\ At("time", "read")
  /\ UNCHANGED <<browsing, state, display, dim, crash, keys, known, mpd>>

\* read() has no more.
ReadEnds ==
  /\ At("read", "write")
  /\ keys' = 0
  /\ UNCHANGED <<browsing, state, display, dim, crash, known, mpd>>

\* The lines and the brightness that are flagged are written.
Write ==
  /\ At("write", "status")
  /\ same' = (same \/ Lines \subseteq pending)
  /\ pending' = {}
  /\ UNCHANGED <<browsing, state, buffer, dim, crash, keys, known, mpd>>

\* The line takes less than is written, which the loop does not look at: the
\* flags are cleared all the same.
WriteShort ==
  /\ At("write", "status")
  /\ pending # {}
  /\ pending' = {}
  /\ same' = FALSE
  /\ UNCHANGED <<browsing, state, buffer, dim, crash, keys, known, mpd>>

\* select() says that the serial line does not take data now.
WriteNot ==
  /\ At("write", "status")
  /\ UNCHANGED <<browsing, state, display, dim, crash, keys, known, mpd>>

StateOf(p) == CASE p = "play" -> "PLAY" [] p = "pause" -> "PAUSE" [] p = "stop" -> "STOPPED"

\* A plausible bug: the cursor stays in the menu that was freed.
StatusKeepsCursor ==
  /\ At("status", "time")
  /\ known' = [player |-> player, db |-> db]
  /\ menu' = IF known.db # db THEN NoMenu ELSE menu
  /\ UNCHANGED <<pmenu, marker, state, display, dim, crash, keys, mpd>>

\* A plausible bug: a changed database leaves the menu as it is.
StatusKeepsMenu ==
  /\ At("status", "time")
  /\ known' = [player |-> player, db |-> db]
  /\ pmenu' = IF known.db # db THEN NULL ELSE pmenu
  /\ UNCHANGED <<menu, marker, state, display, dim, crash, keys, mpd>>

\* mpd_status_update() and the status_changed() it calls.  A new song,
\* playlist or position, of which any may come with the other events,
\* updates the display before or after handle_state_change().
Status ==
  /\ At("status", "time")
  /\ known' = [player |-> player, db |-> db]
  /\ IF known.db # db
       THEN menu' = NoMenu /\ pmenu' = NULL
       ELSE UNCHANGED <<menu, pmenu>>
  /\ \/ /\ pmenu' # NULL
        /\ UNCHANGED <<state, display>>
     \/ /\ pmenu' = NULL
        /\ known.player = player
        /\ \/ LcdUpdate(state, NULL, marker)
           \/ UNCHANGED display
        /\ UNCHANGED state
     \/ /\ pmenu' = NULL
        /\ known.player # player
        /\ state' = IF state # "STDBY" THEN StateOf(player) ELSE state
        /\ \E held \in {buffer} \union StatusLines(state, buffer) :
             \E lines \in StatusLines(state', held) : Show(lines)
        /\ pending' = pending \union Lines
  /\ UNCHANGED <<marker, dim, crash, keys, mpd>>

\* MPD does not say; libmpd goes on with what it knows.
StatusFails ==
  /\ At("status", "time")
  /\ UNCHANGED <<browsing, state, display, dim, crash, keys, known, mpd>>

Loop ==
  \/ NewSecond
  \/ SameSecond
  \/ ReadEnds
  \/ Write
  \/ WriteShort
  \/ WriteNot
  \/ Status
  \/ StatusFails

-----------------------------------------------------------------------------
(* What goes on around the daemon.                                        *)

\* Where MPD is looked at; elsewhere a change would make no difference yet.
LookedAt == pc \in {"read", "status"} /\ Running

\* Another client, or the end of the playlist.
PlayerChanges ==
  /\ LookedAt
  /\ player' \in {"play", "pause", "stop"} \ {player}
  /\ UNCHANGED <<browsing, state, display, dim, loop, known, db>>

DatabaseChanges ==
  /\ LookedAt
  /\ db < Len(Library)
  /\ db' = db + 1
  /\ UNCHANGED <<browsing, state, display, dim, loop, known, player>>

\* The process is gone.
Gone == ~Running /\ UNCHANGED vars

Next ==
  \/ HandleCommand
  \/ Loop
  \/ PlayerChanges
  \/ DatabaseChanges
  \/ Gone

Spec == Init /\ [][Next]_vars

\* The loop goes on; again and again a second begins, and the serial line
\* has sent what it had and takes both lines when they are written.
FairSpec == Spec /\ WF_vars(Loop) /\ SF_vars(NewSecond)
                 /\ SF_vars(Lines \subseteq pending /\ Write)

\* And MPD answers again and again.
AnsweredSpec == FairSpec /\ SF_vars(Status)

-----------------------------------------------------------------------------
\* Every variable keeps to the values the code gives it: the marker is one
\* of the two lines, the mode flags are never sent.
TypeOK ==
  /\ pmenu \in Seq(Nat \ {0})
  /\ marker \in {0, 1}
  /\ state \in {"STDBY", "IDLE", "PLAY", "PAUSE", "STOPPED"}
  /\ pending \subseteq Lines \union {"dim"}
  /\ dim \in {0, 2}
  /\ crash \in {"no", "empty", "unanswered"}
  /\ pc \in {"time", "read", "write", "status"}
  /\ keys \in 0 .. KeysMax
  /\ player \in {"play", "pause", "stop"}
  /\ known.db <= db /\ db <= Len(Library)

\* ctx.pmenu is NULL or an entry of the menu that exists, with all its
\* parents; with the marker in the second line it has a predecessor, which
\* lcd_update() uses.
CursorInMenu ==
  pmenu # NULL => /\ \A i \in 1 .. Len(pmenu) :
                       LET above == SubSeq(pmenu, 1, i - 1)
                       IN  above \in DOMAIN menu /\ pmenu[i] \in DOMAIN menu[above]
                  /\ marker = 1 => HasPrev(pmenu)

\* With the menu open the two lines hold the entry the next key will act
\* on, marked, and its neighbour, or nothing at all after a "play" key that
\* played nothing.
SelectionIsShown ==
  pmenu # NULL => buffer \in {MenuLines(pmenu, marker), BlankLines}

\* What a list must hold, by the database: all artists sorted, albums and
\* songs last first.
Rearranged(list, names) ==
  \E f \in Bijection(DOMAIN list, DOMAIN names) : \A i \in DOMAIN list : list[i] = names[f[i]]
Sorted(list) == \A i, j \in DOMAIN list : i < j => list[i] <= list[j]

IsListOf(p, list) ==
  IF IsLibrary(p)
    THEN Rearranged(list, Names(Library[db])) /\ Sorted(list)
    ELSE list = Reverse(Names(Answer(p)))

\* When libmpd has seen the present database the whole menu is of it, also
\* the lists fetched before and while it changed.
MenuMatchesLibrary ==
  known.db = db =>
    \A p \in DOMAIN menu \ {NULL, <<2>>} : IsListOf(p, menu[p])

\* As long as MPD answers a null pointer is used only when there is nothing
\* to list: no music, no stations, or a menu of a database that is no longer
\* MPD's.
CrashNeedsEmptyList ==
  crash = "empty" => known.db # db \/ Library[db] = <<>> \/ Stations = <<>>

\* What should be on the panel.  A pause leaves one line of what was there
\* and a playing state may leave both.
Current ==
  /\ same
  /\ pmenu # NULL => buffer = MenuLines(pmenu, marker)
  /\ pmenu = NULL /\ state \in {"IDLE", "STOPPED", "STDBY"}
       => buffer \in StatusLines(state, buffer)

\* Once no key is pressed the panel shows the present selection or state
\* again and again, whatever updates the commands made each other lose and
\* whatever a short write has left out.
ScreenCatchesUp == <>[](keys = 0) => []<>(~Running \/ Current)

\* When MPD's player stays as it is and the menu is closed, the daemon's
\* state becomes the player's.  It does not: an event that comes while the
\* menu is open or in standby is dropped and never made up for.
StateFollowsPlayer ==
  \A p \in {"play", "pause", "stop"} :
    <>[](player = p /\ pmenu = NULL /\ state # "STDBY" /\ Running)
      => <>(state = StateOf(p) \/ (state = "IDLE" /\ p = "stop"))
=============================================================================
