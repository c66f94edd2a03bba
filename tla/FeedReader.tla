----------------------------- MODULE FeedReader -----------------------------
(***************************************************************************)
(* How POST /upload-csv reads a file: pandas hands it out in chunks of     *)
(* data rows, each chunk is checked and converted as a whole, its rows get *)
(* the line they came from (source_line), and the database rounds their    *)
(* prices to Numeric(12,2) and checks that they are not negative.  Module  *)
(* PricingWrites takes over from here: its Files are what this module      *)
(* makes of a file, its Invalid is a chunk refused here.                   *)
(*                                                                         *)
(* A file is the list of what follows its header: blank lines, which       *)
(* pandas skips, and rows, which span two lines when a quoted name         *)
(* contains a line break.  Prices are in tenths of a cent as they are      *)
(* written, in cents as they are stored.                                   *)
(*                                                                         *)
(* Not covered: keys that occur twice in a chunk (PricingWrites), dates    *)
(* and numbers that do not parse are one case (Text), lines before the     *)
(* header.                                                                 *)
(***************************************************************************)
EXTENDS Integers, Sequences, FiniteSets, Positions

CONSTANTS
    Cells,     \* price cells: Integers, Blank and Text
    MaxLines,  \* bound on what follows the header, for model checking only
    Chunk,     \* chunksize
    MaxPrice,  \* the largest price Numeric(12,2) holds
    Blank,     \* an empty price cell; stored, the number NaN
    Text,      \* a cell that does not parse
    NoRow      \* in place of a cell, where there is no row

ASSUME FeedConstants ==
    /\ Chunk \in Nat \ {0} /\ MaxLines \in Nat /\ MaxPrice \in Nat
    /\ Cells \ {Blank, Text} \subseteq Int /\ Blank \notin Int

BlankLine == [lines |-> 1, cell |-> NoRow]
Line == {BlankLine} \cup [lines: {1, 2}, cell: Cells]

VARIABLES
    file,     \* what follows the header
    columns,  \* the header names all REQUIRED_CSV_COLUMNS
    read,     \* data rows pandas has handed out
    first,    \* no chunk was read yet
    offset,   \* row_offset
    stored,   \* rows of the feed that are committed
    status,   \* feed.status
    count     \* feed.row_count

fvars == <<file, columns, read, first, offset, stored, status, count>>

(* The data rows, as positions in the file.                                *)
DataRows == InOrder({i \in DOMAIN file : file[i] # BlankLine})

FInit ==
    /\ file \in UNION {[1 .. n -> Line] : n \in 0 .. MaxLines}
    /\ columns \in BOOLEAN
    /\ read = 0 /\ first = TRUE /\ offset = 0
    /\ stored = << >>
    /\ status = "received" /\ count = 0

-----------------------------------------------------------------------------
(* next(chunks): up to Chunk data rows.  A file without any yields one     *)
(* empty chunk.                                                            *)
Batch == SubSeq(DataRows, read + 1, IF read + Chunk < Len(DataRows) THEN read + Chunk
                                    ELSE Len(DataRows))

(* What Numeric(12,2) makes of a price: the nearest cents.  The binary     *)
(* fraction that stands for half a cent may lie on either side of it.      *)
Rounded(cell) ==
    IF cell = Blank THEN {Blank}
    ELSE {p \in (cell - 5) \div 10 .. (cell + 5) \div 10 + 1 :
             10 * p - 5 <= cell /\ cell <= 10 * p + 5}

(* The column takes it and the CHECK holds.  NaN passes: PostgreSQL takes  *)
(* it for greater than every number.                                       *)
Storable == (0 .. MaxPrice) \cup {Blank}

(* _read_and_prepare_chunk: every column there, every cell parses.         *)
Parses == columns /\ \A n \in DOMAIN Batch : file[Batch[n]].cell # Text

(* The feed is failed, what was committed stays.                           *)
Fail ==
    /\ status' = "failed"
    /\ UNCHANGED <<file, columns, read, first, offset, stored, count>>

(* Mutant of Numbered: line numbers that start anew with every chunk.       *)
NumberedFromTwo(ps) ==
    [n \in DOMAIN Batch |-> [row |-> Batch[n], source_line |-> n + 1, price |-> ps[n]]]

(* The rows of a chunk with their line numbers (idx counts from 0, hence   *)
(* row_offset + idx + 2), and the prices ps.                               *)
Numbered(ps) ==
    [n \in DOMAIN Batch |->
        [row |-> Batch[n], source_line |-> offset + n + 1, price |-> ps[n]]]

(* Mutant of Accept: whole chunks are counted, the last one too.            *)
AcceptByChunk(ps) ==
    /\ stored' = stored \o Numbered(ps)
    /\ read' = read + Len(Batch) /\ offset' = offset + Chunk
    /\ first' = FALSE
    /\ UNCHANGED <<file, columns, status, count>>

(* The chunk is committed.                                                 *)
Accept(ps) ==
    /\ stored' = stored \o Numbered(ps)
    /\ read' = read + Len(Batch) /\ offset' = offset + Len(Batch)
    /\ first' = FALSE
    /\ UNCHANGED <<file, columns, status, count>>

ReadChunk ==
    /\ status = "received" /\ (first \/ read < Len(DataRows))
    /\ IF ~Parses THEN Fail
       ELSE LET cells == [n \in DOMAIN Batch |-> file[Batch[n]].cell]
                Ways  == UNION {Rounded(cells[n]) : n \in DOMAIN cells} IN
            \E ps \in [DOMAIN Batch -> Ways] :
                /\ \A n \in DOMAIN Batch : ps[n] \in Rounded(cells[n])
                /\ IF \A n \in DOMAIN Batch : ps[n] \in Storable
                   THEN Accept(ps) ELSE Fail

(* No chunk is left: the feed is processed.                                *)
Finish ==
    /\ status = "received" /\ ~first /\ read = Len(DataRows)
    /\ status' = "processed" /\ count' = offset
    /\ UNCHANGED <<file, columns, read, first, offset, stored>>

FNext == ReadChunk \/ Finish

FSpec == FInit /\ [][FNext]_fvars

-----------------------------------------------------------------------------
(* Type invariant.                                                         *)
FeedTypeOK ==
    /\ read \in 0 .. Len(DataRows) /\ offset \in Nat /\ count \in Nat
    /\ stored \in Seq([row: DOMAIN file, source_line: Nat,
                       price: (0 .. MaxPrice) \cup {Blank}])
    /\ status \in {"received", "processed", "failed"}

(* The line of the file on which its i-th piece begins: the header is the  *)
(* first, and every row of two lines before it moves it by another one.    *)
FileLine(i) == 1 + i + Cardinality({j \in 1 .. i - 1 : file[j].lines = 2})

(* The lines lead back to the file: no row is lost, taken twice or out of  *)
(* order at the edge of a chunk, and its source_line counts data rows      *)
(* through all chunks: it is the line of the file, as the comment in       *)
(* upload.py has it, if nothing before it was blank or longer than a line; *)
(* otherwise it falls behind.                                              *)
LinesLeadBack ==
    \A n \in DOMAIN stored :
        LET i == stored[n].row IN
        /\ i = DataRows[n]
        /\ stored[n].source_line =
              2 + Cardinality({j \in 1 .. i - 1 : file[j] # BlankLine})
        /\ (\A j \in 1 .. i - 1 : file[j] # BlankLine /\ file[j].lines = 1) =>
              stored[n].source_line = FileLine(i)

(* A stored price is the one in the file up to half a cent, never negative *)
(* -- the smallest negative amounts are stored as zero --, or NaN where    *)
(* the cell was blank.                                                     *)
PricesAreFaithful ==
    \A n \in DOMAIN stored :
        LET cell == file[stored[n].row].cell
            p    == stored[n].price
        IN  /\ p = Blank <=> cell = Blank
            /\ p # Blank => p >= 0 /\ 10 * p - cell \in -5 .. 5

(* A stored row leads back to its line and its price.                      *)
RowsLeadBack == LinesLeadBack /\ PricesAreFaithful

Refusable(i) == file[i].cell = Text \/ ~(Rounded(file[i].cell) \subseteq Storable)
Acceptable(i) == file[i].cell # Text /\ Rounded(file[i].cell) \cap Storable # {}

(* One cell that cannot be taken costs its chunk and all that follow, and  *)
(* no chunk before it; a processed feed holds, and counts, every data row. *)
ChunkIsTheUnit ==
    /\ status = "processed" =>
          /\ columns /\ \A n \in DOMAIN DataRows : Acceptable(DataRows[n])
          /\ Len(stored) = Len(DataRows) /\ count = Len(DataRows)
    /\ status = "failed" =>
          \/ ~columns /\ stored = << >>
          \/ \E n \in DOMAIN DataRows :
                /\ Refusable(DataRows[n])
                /\ Len(stored) = Chunk * ((n - 1) \div Chunk)
                /\ \A m \in 1 .. Len(stored) : Acceptable(DataRows[m])
=============================================================================
