----------------------------- MODULE RecoveryMap -----------------------------
(***************************************************************************)
(* From the receipt of a submission to the cells its data is recovered     *)
(* from: client/examples/build_payload_recovery_map_native.rs ("native")   *)
(* and map_payload_recovery_receipt.rs ("receipt").  Both read the block   *)
(* of the receipt in several RPCs, some by height and some by hash, while  *)
(* the node may be moving to another chain.                                *)
(***************************************************************************)
EXTENDS BlockBody

CONSTANTS
  RuntimeGrids,  \* kate_blockLength: [rows, cols] records
  CustodyCols,   \* CDA_CUSTODY_COLS, 8, 16 or 32 in the code
  Inventory,     \* the store owners: [col, network, replica] records
  NoOwner        \* stands for "no owner"

ASSUME RecoveryAssumption ==
  /\ CustodyCols \in Nat \ {0}
  /\ \A g \in RuntimeGrids : g.rows \in Nat \ {0} /\ g.cols \in Nat \ {0}

VARIABLES
  tool,      \* which of the two programs runs
  profile,   \* CDA_ACTIVE_TOPOLOGY_PROFILE
  ticket,    \* the receipt: block, transaction and application
  reads,     \* the RPC that is awaited, "done" or "failed"
  txIndex,   \* ext_info.ext_index
  lookup,    \* app_lookup of the header
  cells      \* the map: scalar -> cell

recoveryVars == <<tool, profile, ticket, reads, txIndex, lookup, cells>>

NoTicket == [block |-> NoBlock]
NoCells == [i \in {} |-> 0]

RecoveryInit ==
  /\ tool \in {"native", "receipt"}
  /\ profile \in {"stage-b", "stage-b-plus", "stage-c"}
  /\ ticket = NoTicket
  /\ reads = "done"
  /\ txIndex = 0
  /\ lookup = [size |-> 0, index |-> <<>>]
  /\ cells = NoCells

-----------------------------------------------------------------------------
(* The data-lookup ranges and the grid *)

(* expand_lookup: what is before the first item is application 0's. *)
ExpandLookup(l) ==
  LET items    == Len(l.index)
      start(i) == IF i = 0 THEN 0 ELSE l.index[i].start
      range(i) == [app  |-> IF i = 0 THEN 0 ELSE l.index[i].app,
                   from |-> start(i),
                   to   |-> IF i = items THEN l.size ELSE start(i + 1)]
      ranges   == IF start(items) < l.size THEN items + 1 ELSE items
  IN  [i \in 1..ranges |-> range(i - 1)]

(* The range of the application: one with scalars if there is one. *)
Selected(ranges, app) ==
  LET mine  == {i \in DOMAIN ranges : ranges[i].app = app}
      whole == {i \in mine : ranges[i].from < ranges[i].to}
  IN  ranges[CHOOSE i \in Lowest(IF whole # {} THEN whole ELSE mine) : TRUE]

HasRange(ranges, app) == \E i \in DOMAIN ranges : ranges[i].app = app

NextPowerOfTwo(n) == CHOOSE p \in {2^k : k \in 0..n} : p >= n /\ (p = 1 \/ p < 2 * n)

CeilDiv(n, d) == (n + d - 1) \div d

ComputedGridRows(size, cols) ==
  NextPowerOfTwo(IF size = 0 THEN 1 ELSE CeilDiv(size, cols))

CustodyCol(extCol, custody) == (extCol \div 2) % custody

(* Mutant of CustodyVirtualRow: the bands are rounded down. *)
CustodyVirtualRowFloor(row, col, cols, custody) ==
  LET bands == cols \div custody
  IN  row * (IF bands = 0 THEN 1 ELSE bands) + (col \div custody)

CustodyVirtualRow(row, col, cols, custody) ==
  row * CeilDiv(cols, custody) + (col \div custody)

(* filter_active_owners with the scope of the profile. *)
ActiveOwners ==
  IF profile = "stage-c" THEN Inventory
  ELSE {o \in Inventory : o.network = 0
                          /\ o.replica < IF profile = "stage-b" THEN 1 ELSE 2}

OwnersOf(col) == {o \in ActiveOwners : o.col = col}

-----------------------------------------------------------------------------
(* The program, from one RPC to the next *)

Next_(step) == reads' = step
Fails == reads' = "failed" /\ UNCHANGED <<txIndex, lookup, cells>>

(* The submitting program saw its transaction in a block and wrote the       *)
(* receipt.                                                                 *)
WriteReceipt ==
  /\ ticket = NoTicket
  /\ \E h \in 1..Height(best) :
       LET b == AncestorAt(best, h)
       IN  \E i \in DOMAIN Body(b) :
             /\ Body(b)[i].call = "submit"
             /\ ticket' = [block |-> b, tx |-> Body(b)[i].tx, app |-> AppOf(Body(b)[i])]
  /\ UNCHANGED <<chainVars, tool, profile, reads, txIndex, lookup, cells>>

(* main, to the first RPC; also when it is run again. *)
Run ==
  /\ ticket # NoTicket /\ reads \in {"done", "failed"} /\ cells = NoCells
  /\ IF tool = "native" /\ ActiveOwners = {} THEN reads' = "failed" ELSE reads' = "hash"
  /\ txIndex' = 0 /\ lookup' = [size |-> 0, index |-> <<>>]
  /\ UNCHANGED <<chainVars, tool, profile, ticket, cells>>

(* chain.block_hash(receipt.block_number). *)
CheckHash ==
  /\ reads = "hash"
  /\ IF Height(ticket.block) <= Height(best)
        /\ AncestorAt(best, Height(ticket.block)) = ticket.block
     THEN Next_("infos") /\ UNCHANGED <<txIndex, lookup, cells>>
     ELSE Fails
  /\ UNCHANGED <<chainVars, tool, profile, ticket>>

(* client.block(receipt.block_number).extrinsic_infos, by height.  The      *)
(* application is compared if the extrinsic is signed.                      *)
FindExtrinsic ==
  /\ reads = "infos"
  /\ \E b \in Meant(ByNumber(Height(ticket.block))) :
       LET infos == IF b = NoBlock THEN {} ELSE Lowest(Fetch(TxHash(ticket.tx), NoApp, b))
       IN  IF \E i \in infos : Body(b)[i].app \in {NoApp, ticket.app}
           THEN /\ txIndex' \in infos
                /\ Next_(IF tool = "native" THEN "bytes" ELSE "header")
                /\ UNCHANGED <<lookup, cells>>
           ELSE Fails
  /\ UNCHANGED <<chainVars, tool, profile, ticket>>

(* Mutant of CheckBytes: the bytes found at the index are not hashed. *)
CheckBytesUnhashed ==
  /\ reads = "bytes"
  /\ \E b \in Meant(ByHash(ticket.block)) :
       IF b # NoBlock /\ txIndex \in DOMAIN Body(b)
       THEN Next_("header") /\ UNCHANGED <<txIndex, lookup, cells>>
       ELSE Fails
  /\ UNCHANGED <<chainVars, tool, profile, ticket>>

(* chain.legacy_block(expected_block_hash), by hash. *)
CheckBytes ==
  /\ reads = "bytes"
  /\ \E b \in Meant(ByHash(ticket.block)) :
       IF b # NoBlock /\ txIndex \in DOMAIN Body(b) /\ Body(b)[txIndex].tx = ticket.tx
       THEN Next_("header") /\ UNCHANGED <<txIndex, lookup, cells>>
       ELSE Fails
  /\ UNCHANGED <<chainVars, tool, profile, ticket>>

(* chain.block_header(expected_block_hash), by hash. *)
ReadLookup ==
  /\ reads = "header"
  /\ \E b \in Meant(ByHash(ticket.block)) :
       IF b = NoBlock THEN Fails
       ELSE lookup' = DataLookup(b) /\ Next_("length") /\ UNCHANGED <<txIndex, cells>>
  /\ UNCHANGED <<chainVars, tool, profile, ticket>>

(* pad_app_stream of vec![tx_bytes].encode(). *)
Padded(count) ==
  LET stream == AppStream(<<Body(ticket.block)[txIndex]>>)
  IN  [i \in 1..count |-> IF i <= Len(stream) THEN stream[i] ELSE "zero"]

FitsRange(count) == Len(AppStream(<<Body(ticket.block)[txIndex]>>)) <= count

(* The cell of scalar s of range r; the receipt's program leaves out all but *)
(* row and col.                                                             *)
Cell(s, r, cols) ==
  LET row  == s \div cols
      col  == s % cols
      cust == CustodyCol(2 * col, CustodyCols)
  IN  IF tool = "native"
      THEN [row |-> row, col |-> col, extCol |-> 2 * col, custodyCol |-> cust,
            virtualRow |-> CustodyVirtualRow(row, col, cols, CustodyCols),
            chunk |-> Padded(r.to - r.from)[s - r.from + 1],
            owner |-> IF OwnersOf(cust) = {} THEN NoOwner ELSE CHOOSE o \in OwnersOf(cust) : TRUE]
      ELSE [row |-> row, col |-> col]

(* kate_blockLength, and the map.  Without an answer the receipt's program   *)
(* takes the grid of the header or of its environment, any grid here.       *)
DrawMap ==
  /\ reads = "length"
  /\ \E g \in RuntimeGrids :
       LET ranges == ExpandLookup(lookup)
           r      == Selected(ranges, ticket.app)
           rows   == IF tool = "native" THEN ComputedGridRows(lookup.size, g.cols) ELSE g.rows
           drawn  == [s \in r.from..(r.to - 1) |-> Cell(s, r, g.cols)]
       IN  IF /\ HasRange(ranges, ticket.app)
              /\ rows <= g.rows /\ r.to <= rows * g.cols
              /\ tool = "native" => /\ FitsRange(r.to - r.from)
                                    /\ \A s \in DOMAIN drawn : drawn[s].owner # NoOwner
           THEN cells' = drawn /\ Next_("done") /\ UNCHANGED <<txIndex, lookup>>
           ELSE Fails
  /\ UNCHANGED <<chainVars, tool, profile, ticket>>

(* An RPC fails for good. *)
ReadingFails ==
  /\ reads \notin {"done", "failed"}
  /\ Fails
  /\ UNCHANGED <<chainVars, tool, profile, ticket>>

RecoveryNext ==
  \/ ChainNext /\ UNCHANGED recoveryVars
  \/ WriteReceipt \/ Run
  \/ CheckHash \/ FindExtrinsic \/ CheckBytes \/ ReadLookup \/ DrawMap
  \/ ReadingFails

RecoverySpec == ChainInit /\ RecoveryInit /\ [][RecoveryNext]_<<chainVars, recoveryVars>>

-----------------------------------------------------------------------------
(* A finished native map names the receipt's transaction in the receipt's    *)
(* block, although its index was read by height and its bytes by hash.      *)
MapOfTicket ==
  cells # NoCells /\ tool = "native" => Body(ticket.block)[txIndex].tx = ticket.tx

(* So it is, and what it expects in each cell is what the block's grid holds *)
(* there, whatever the node did between the reads, if the application has    *)
(* one extrinsic in that block.  (With a second one the program encodes a    *)
(* list of one and the cells hold a list of two.)                           *)
ChunksMatch ==
  /\ MapOfTicket
  /\ cells # NoCells /\ tool = "native" =>
    (Len(OfApp(ticket.block, ticket.app)) = 1 =>
         /\ Cardinality(DOMAIN cells) = Len(AppStream(OfApp(ticket.block, ticket.app)))
         /\ \A s \in DOMAIN cells : cells[s].chunk = Grid(ticket.block)[s + 1])

(* No two scalars share a place in the custody grid, and each has an owner   *)
(* that is active and stores its column.                                    *)
CellsApart ==
  tool = "native" =>
    \A s, t \in DOMAIN cells :
      /\ cells[s].owner \in ActiveOwners /\ cells[s].owner.col = cells[s].custodyCol
      /\ cells[s].virtualRow = cells[t].virtualRow /\ cells[s].custodyCol = cells[t].custodyCol
           => s = t
=============================================================================
