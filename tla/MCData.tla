-------------------------------- MODULE MCData --------------------------------
(***************************************************************************)
(* The data structures of src/ for TLC: the hash table and the arenas of   *)
(* src/domain, and the tables of MCTables.  They do not interact, so a     *)
(* behaviour is of one of them.                                            *)
(*                                                                         *)
(* The hash table has three keys that share a chain, so that the first,    *)
(* the middle and the last entry of a chain are removed, a second chain    *)
(* that stays empty, and room for one entry more than there are keys.  The *)
(* arenas have words of two bytes and pages of four, so that sizes are     *)
(* rounded up to both, a mapping of three pages and two scratch arenas.    *)
(***************************************************************************)
EXTENDS MCTables, HashMap, Arena, TLC

CONSTANTS k1, k2, k3

MCBuckets == {0, 1}
MCHash == k1 :> 0 @@ k2 :> 0 @@ k3 :> 0

parts == <<vars, hashVars, arenaVars>>

PartsInit == Init /\ HashInit /\ ArenaInit

\* Beside the hash table and the arenas, the tables are those of a file of one
\* line: with none, RegistersAgree would be evaluated in each of their states.
OneLine ==
  /\ cache = ArcCreate(1)
  /\ given = <<>> /\ lens = <<1>> /\ units = <<>> /\ written = Zero /\ NoSlice
NoHash == entry = <<>> /\ buckets = [b \in Buckets |-> Null] /\ held = EmptyMap
NoArena == InUse = {Root} /\ blocks = {} /\ arena[Root].offset = 0
Asserts == ~ndebug /\ ~died

OnlyTables ==
  /\ NoHash /\ NoArena /\ Asserts
  /\ Next /\ UNCHANGED <<hashVars, arenaVars>>
  /\ given' # given \/ cache = ArcCreate(1)
OnlyHash ==
  OneLine /\ NoArena /\ Asserts /\ HashNext /\ UNCHANGED <<vars, arenaVars>>
OnlyArena ==
  OneLine /\ NoHash /\ ArenaNext /\ UNCHANGED <<vars, hashVars>>

PartsNext == OnlyTables \/ OnlyHash \/ OnlyArena

PartsSpec == PartsInit /\ [][PartsNext]_parts
=============================================================================
