--------------------------- MODULE CacheInterface ---------------------------
(***************************************************************************)
(* The two interfaces of cache.sv: the request port on which ramio drives  *)
(* it, and the wires I_sdrc_* / O_sdrc_* to the SDRAM controller.  Word    *)
(* addresses are kept split the way the cache splits them.                 *)
(***************************************************************************)
EXTENDS Integers, FiniteSets

CONSTANTS TagCount,     \* 2 ^ TAG_BITWIDTH
          LineCount,    \* LINE_COUNT, 2 ^ LineIndexBitwidth
          ColumnCount,  \* COLUMN_COUNT, 2 ^ ColumnIndexBitwidth
          Bytes,        \* the four byte lanes of a word
          Values,       \* what a byte holds
          Addressable,  \* the addresses the program uses
          NoWord        \* no word is on the bus

Tags    == 0..(TagCount - 1)
Lines   == 0..(LineCount - 1)
Columns == 0..(ColumnCount - 1)

Addresses     == [tag : Tags, line : Lines, column : Columns]
LineAddresses == [tag : Tags, line : Lines]

ASSUME SizeAssumption ==
  /\ TagCount \in Nat \ {0}
  /\ LineCount \in Nat \ {0}
  /\ ColumnCount \in Nat \ {0, 1}
  /\ 0 \in Values
  /\ Addressable \subseteq Addresses

Words == [Bytes -> Values]
Zero  == [b \in Bytes |-> 0]

ASSUME NoWordAssumption == NoWord \notin Words

\* byte enabled write of a block RAM word
Merge(old, new, mask) == [b \in Bytes |-> IF b \in mask THEN new[b] ELSE old[b]]

-----------------------------------------------------------------------------
VARIABLES request  \* the ports enable, address, data_in and write_enable

Loads  == [enable : {TRUE}, address : Addressable,
           write_enable : {{}}, data_in : {Zero}]

\* ramio leaves the lanes outside the mask zero
Stores == {r \in [enable : {TRUE}, address : Addressable,
                  write_enable : (SUBSET Bytes) \ {{}}, data_in : Words] :
             \A b \in Bytes \ r.write_enable : r.data_in[b] = 0}

Idles  == [enable : {FALSE}, address : Addressable,
           write_enable : {{}}, data_in : {Zero}]

Requests == Loads \cup Stores \cup Idles

-----------------------------------------------------------------------------
VARIABLES I_sdrc_cmd_en,   \* command is valid in this cycle
          I_sdrc_cmd,
          I_sdrc_addr,     \* line address, the controller's bank and row bits
          I_sdrc_data,
          O_sdrc_cmd_ack,  \* the last command has been carried out
          O_sdrc_data

requestVars == <<I_sdrc_cmd_en, I_sdrc_cmd, I_sdrc_addr, I_sdrc_data>>

\* 3'b000, 3'b001, 3'b011, 3'b100 and 3'b101
Commands == {"none", "refresh", "activate", "write", "read"}
=============================================================================
