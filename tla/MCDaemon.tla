------------------------------- MODULE MCDaemon -------------------------------
(***************************************************************************)
(* Data for Daemon: a database with an album of two songs; then the album  *)
(* is another artist's and has lost a song, and the first artist has a new *)
(* album.  And a database with one album that stays.  Three stations make  *)
(* the list longer than the display.                                       *)
(***************************************************************************)
EXTENDS Daemon

Song(n) == [name |-> n]
Album(n, songs) == [name |-> n, sub |-> songs]
Artist(n, albums) == [name |-> n, sub |-> albums]

MCLibrary == <<
  <<Artist(4, <<Album(6, <<Song(8), Song(7)>>)>>)>>,
  <<Artist(4, <<Album(5, <<Song(9)>>)>>), Artist(3, <<Album(6, <<Song(8)>>)>>)>> >>

MCOneAlbum == << <<Artist(4, <<Album(6, <<Song(8)>>)>>)>> >>

MCStations == <<11, 10, 12>>
=============================================================================
