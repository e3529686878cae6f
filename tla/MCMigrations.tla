---------------------------- MODULE MCMigrations ----------------------------
(***************************************************************************)
(* Instances of Migrations.  The stores are ones older versions leave      *)
(* behind: two Matrix users for one Mattermost user, stale or missing      *)
(* reverse mappings, an alias and its room ID mapped to two channels, DMs  *)
(* that a newer version has mapped again.                                  *)
(***************************************************************************)
EXTENDS Migrations, TLC

MCRoomOf == (21 :> 11)

\* Nothing before the mappings, or ghosts and the version key before some.
MCOtherKeys == { [p \in Phase |-> 0],
                 [p \in Phase |-> IF p \in {"channels", "dms"} THEN 0 ELSE 1] }

Empty == [matrixUser |-> [m \in MatrixUser |-> None],
          user       |-> [u \in User |-> None],
          channel    |-> [c \in Channel |-> None],
          room       |-> [i \in Room |-> None],
          dm         |-> [c \in Channel |-> None],
          matrixDm   |-> [r \in RoomID |-> None]]

MCLegacyStores ==
    { \* three users, two of them one account, and a stale reverse mapping
      [Empty EXCEPT !.matrixUser = [m \in MatrixUser |-> IF m = 2 THEN 2 ELSE 1],
                    !.user[2] = 1],
      \* an alias, its room ID and a stale reverse mapping
      [Empty EXCEPT !.channel[1] = 21, !.channel[2] = 11, !.room[11] = 3],
      \* two DMs, one mapped again, with their reverse mappings
      [Empty EXCEPT !.dm[1] = 11, !.dm[2] = 12, !.channel[1] = 13,
                    !.matrixDm[11] = 1, !.matrixDm[12] = 2],
      \* two DMs, the room of one of them mapped to another channel
      [Empty EXCEPT !.dm[1] = 11, !.dm[2] = 12, !.channel[3] = 12,
                    !.room[12] = 3, !.matrixDm[11] = 1, !.matrixDm[12] = 2],
      \* a DM whose reverse mapping is at the end of the first page
      [Empty EXCEPT !.dm[1] = 11, !.matrixDm[11] = 1],
      \* a page and one more
      [Empty EXCEPT !.dm[1] = 11, !.dm[2] = 12, !.dm[3] = 13] }
=============================================================================
