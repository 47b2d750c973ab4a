---------------------------- MODULE FileReading ----------------------------
(***************************************************************************)
(* What the first-party readers make of the bytes of an upload             *)
(* (platform/parse, platform/bytes): a PDF's pages in reading order with   *)
(* what could not be read named, a workbook's sheets out of their archive, *)
(* a sheet's or a CSV's rows under the numbers a spreadsheet user sees.    *)
(*                                                                         *)
(* A file is a sequence of pieces - a PDF's object blocks, an archive's    *)
(* entries, a sheet's rows, a text's characters - and grows by one piece a *)
(* step, so that every prefix is a file too; it is read anew each time.    *)
(* Sizes in bytes, fonts, glyph positions and XML entities are abstracted. *)
(***************************************************************************)
EXTENDS Integers, Sequences, FiniteSets
LOCAL INSTANCE SequencesExt
LOCAL INSTANCE FiniteSetsExt

CONSTANTS
    Blocks,      \* a PDF's object blocks: [id, is, refs, marks, filter, shows]
    Entries,     \* an archive's members: [name, flags, sheets, targets, rows]
    Rows,        \* a sheet's <row> elements: [number, closed, cells]
    Characters,  \* the characters of a text
    Shared,      \* the workbook's shared strings, by index
    Begun,       \* the files a file of each format may grow from
    None,        \* no value
    MaxObjects,  \* PdfBudget.maxObjects
    MaxPages,    \* PdfBudget.maxPages
    MaxDepth,    \* how deep the page tree is walked
    MaxRows,     \* TabularBudget.maxRows
    MaxColumns,  \* TabularBudget.maxColumns
    MaxEntries,  \* ZipBudget.maxEntries
    MaxPieces    \* bound: pieces of each format, a function of the format

Formats == {"PDF", "XLSX", "SHEET", "TEXT"}

FileReadingAssumption ==
    /\ {MaxObjects, MaxPages, MaxDepth, MaxRows, MaxColumns, MaxEntries} \subseteq Nat \ {0}
    /\ Formats \subseteq DOMAIN MaxPieces \cap DOMAIN Begun /\ None \notin Int

VARIABLES
    format,   \* what the bytes are, whatever the name says (detectFormat)
    pieces,   \* what the file is made of so far
    reading   \* what the reader returns for it

vars == <<format, pieces, reading>>

-----------------------------------------------------------------------------
(* PDF *)

\* Mutation: the first block of an object stands, an update's is ignored.
FirstStands(blocks) ==
    FoldLeft(LAMBDA found, b : IF \E k \in DOMAIN found : found[k].id = b.id
                                  THEN found ELSE Append(found, b), <<>>, blocks)

\* The objects by id, in the order the ids first occur; an incremental update's block
\* replaces the one it updates, and blocks past the ceiling are not looked at.
ScanObjects(blocks) ==
    FoldLeft(LAMBDA found, b :
                IF Len(found) >= MaxObjects THEN found
                ELSE IF \E k \in DOMAIN found : found[k].id = b.id
                     THEN [k \in DOMAIN found |-> IF found[k].id = b.id THEN b ELSE found[k]]
                     ELSE Append(found, b), <<>>, blocks)

Has(objects, id) == \E k \in DOMAIN objects : objects[k].id = id
Object(objects, id) == objects[CHOOSE k \in DOMAIN objects : objects[k].id = id]

\* What walking the tree from the node `id` adds to the pages found and the nodes seen: no node
\* twice, none deeper than the ceiling, and no more pages than the budget.
Walk(objects, id, at) ==
    LET from[node \in Nat, depth \in Nat, found \in [order: Seq(Nat), seen: SUBSET Nat]] ==
            IF \/ depth > MaxDepth \/ Len(found.order) >= MaxPages
               \/ node \in found.seen \/ ~Has(objects, node)
            THEN found
            ELSE LET here == [found EXCEPT !.seen = @ \cup {node}]
                 IN IF Object(objects, node).is = "page" THEN [here EXCEPT !.order = Append(@, node)]
                    ELSE FoldLeft(LAMBDA a, kid : from[kid, depth + 1, a], here,
                                  Object(objects, node).refs)
    IN from[id, 0, at]

InTree(objects) ==
    LET root == IF Has(objects, 0) THEN Object(objects, 0).refs ELSE <<>>
    IN IF root = <<>> THEN <<>> ELSE Walk(objects, Head(root), [order |-> <<>>, seen |-> {}]).order

\* Mutation: a document whose tree cannot be walked is numbered in object order silently.
TreeAssumed(objects) ==
    [order |-> IF InTree(objects) # <<>> THEN InTree(objects)
               ELSE SelectSeq([k \in DOMAIN objects |-> objects[k].id],
                              LAMBDA id : Object(objects, id).is = "page"),
     walked |-> TRUE]

\* Pages in reading order, or in object order when the tree gives none, which is noted.
PageOrder(objects) ==
    LET pages == SelectSeq([k \in DOMAIN objects |-> objects[k].id],
                           LAMBDA id : Object(objects, id).is = "page")
        walked == InTree(objects)
    IN IF walked # <<>> THEN [order |-> walked, walked |-> TRUE]
       ELSE [order |-> SubSeq(pages, 1, Min({MaxPages, Len(pages)})), walked |-> FALSE]

\* The streams whose bytes are had: plain ones, and those that inflate within the ceiling.
Decoded == {"none", "Flate"}

\* Mutation: a stream in an unknown filter is left out without a word.
SilentStreams(objects, page) ==
    LET streams == SelectSeq(page.refs, LAMBDA id : Has(objects, id) /\ Object(objects, id).is = "stream")
    IN [content |-> FlattenSeq([k \in DOMAIN streams |->
                       IF Object(objects, streams[k]).filter \in Decoded
                       THEN Object(objects, streams[k]).shows ELSE <<>>]),
        notes |-> {}]

\* A page's content streams one after the other: plain or inflated; another filter, or one that
\* does not inflate, is noted. A reference to nothing, or to no stream, is passed over.
ContentStreams(objects, page) ==
    LET streams == SelectSeq(page.refs, LAMBDA id : Has(objects, id) /\ Object(objects, id).is = "stream")
        Of(k) == Object(objects, streams[k])
    IN [content |-> FlattenSeq([k \in DOMAIN streams |->
                       IF Of(k).filter \in Decoded THEN Of(k).shows ELSE <<>>]),
        notes |-> {Of(k).filter : k \in DOMAIN streams} \ Decoded]

Word == {"w1", "w2"}   \* literal or hexadecimal strings, decoded

\* Mutation: strings no operator has shown yet are dropped at a line break.
PendingDropped(content) ==
    LET Show(s, separator) == [out |-> s.out \o s.pending \o separator, pending |-> <<>>]
        Take(s, t) == IF t \in Word THEN [s EXCEPT !.pending = Append(@, t)]
                      ELSE IF t = "show" THEN Show(s, <<>>)
                      ELSE [out |-> Append(s.out, "line"), pending |-> <<>>]
    IN Show(FoldLeft(Take, [out |-> <<>>, pending |-> <<>>], content), <<>>).out

\* Strings wait for the operator that shows them; a wide adjustment between two is a gap
\* (numbers are in thousandths), an operator that moves the line breaks it.
ExtractText(content) ==
    LET Show(s, separator) == [out |-> s.out \o s.pending \o separator, pending |-> <<>>]
        Take(s, t) ==
            IF t \in Word THEN [s EXCEPT !.pending = Append(@, t)]
            ELSE IF t = "gap" THEN [s EXCEPT !.pending = IF @ = <<>> THEN @ ELSE Append(@, " ")]
            ELSE IF t = "show" THEN Show(s, <<>>)
            ELSE IF t = "move" THEN Show(s, <<"line">>)
            ELSE s
    IN Show(FoldLeft(Take, [out |-> <<>>, pending |-> <<>>], content), <<>>).out

\* A page in a font whose characters are mapped inside it is returned empty and named.
ReadPage(objects, id, n) ==
    LET page == Object(objects, id)
        found == ContentStreams(objects, page)
        mapped == "identityH" \in page.marks
    IN [page |-> [pageNumber |-> n, id |-> id,
                  text |-> IF mapped THEN <<>> ELSE ExtractText(found.content)],
        notes |-> found.notes \cup (IF mapped THEN {"identityH"} ELSE {})
                  \cup (IF "image" \in page.marks /\ found.content = <<>> THEN {"scanned"} ELSE {})]

\* Nothing of an encrypted document is read; what is read names all that could not be.
ParsePdf(blocks) ==
    LET objects == ScanObjects(blocks)
        found == PageOrder(objects)
        read == [k \in DOMAIN found.order |-> ReadPage(objects, found.order[k], k)]
    IN IF \E k \in DOMAIN blocks : blocks[k].is = "encryption"
       THEN [pages |-> <<>>, unreadable |-> {"encrypted"}]
       ELSE [pages |-> [k \in DOMAIN read |-> read[k].page],
             unreadable |-> UNION {read[k].notes : k \in DOMAIN read}
                            \cup (IF found.walked THEN {} ELSE {"page tree"})]

\* A document without a page is refused. Its passages are cited by page when the tree gave the
\* order, else by section, and the receipt names whatever was not read.
IngestDocument(blocks) ==
    LET parsed == ParsePdf(blocks)
    IN IF parsed.pages = <<>> THEN [refused |-> TRUE]
       ELSE [refused |-> FALSE, pages |-> parsed.pages, notes |-> parsed.unreadable,
             complete |-> parsed.unreadable = {},
             citedBy |-> IF "page tree" \in parsed.unreadable THEN "CHUNK" ELSE "PAGE"]

-----------------------------------------------------------------------------
(* Rows and columns *)

Digits == {"7"}
ExecutionPrefix == {"=", "+", "-", "@"}
Signed(value) ==
    /\ Head(value) \in {"+", "-"} /\ \E k \in DOMAIN value : value[k] \in Digits
    /\ \A k \in 2..Len(value) : value[k] \in Digits \cup {",", ".", " "}

\* Mutation: whatever starts with a sign passes for a number.
SignPasses(value) ==
    IF value = <<>> \/ value[1] \notin ExecutionPrefix \/ value[1] \in {"+", "-"} THEN value
    ELSE <<"'">> \o value

\* What a spreadsheet would run is led by an apostrophe; a signed number is not.
NeutraliseFormula(value) ==
    IF value = <<>> \/ value[1] \notin ExecutionPrefix \/ Signed(value) THEN value
    ELSE <<"'">> \o value

IsBlank(value) == \A k \in DOMAIN value : value[k] = " "
\* The header of column k, numbered when it has no words.
HeaderOf(value, k) == IF IsBlank(value) THEN <<"column", k>> ELSE value

\* A row's cells by header. Two columns of one header share a cell: the later stands.
CellsOf(headers, At(_)) ==
    LET ColumnOf(h) == Max({k \in DOMAIN headers : headers[k] = h})
    IN [h \in ToSet(headers) |-> NeutraliseFormula(At(ColumnOf(h)))]

\* Mutation: a quote inside a quoted field ends it even when it is doubled.
QuoteEnds(text) ==
    LET Take(s, k) ==
            LET ch == text[k] IN
            IF s.quoted THEN IF ch = "quote" THEN [s EXCEPT !.quoted = FALSE]
                             ELSE [s EXCEPT !.field = Append(@, ch)]
            ELSE IF ch = "quote" /\ s.field = <<>> THEN [s EXCEPT !.quoted = TRUE]
            ELSE IF ch = "," THEN [s EXCEPT !.record = Append(@, s.field), !.field = <<>>]
            ELSE IF ch = "line" THEN [s EXCEPT !.out = Append(@, Append(s.record, s.field)),
                                               !.record = <<>>, !.field = <<>>]
            ELSE [s EXCEPT !.field = Append(@, ch)]
        end == FoldLeft(Take, [out |-> <<>>, record |-> <<>>, field |-> <<>>, quoted |-> FALSE],
                        [k \in DOMAIN text |-> k])
    IN IF end.field # <<>> \/ end.record # <<>>
       THEN Append(end.out, Append(end.record, end.field)) ELSE end.out

\* RFC 4180: separators inside quotes are data, a doubled quote is one, carriage returns are
\* dropped outside quotes, and reading stops once the records exceed the rows and a header.
SplitRecords(text) ==
    LET Take(s, k) ==
            LET ch == text[k] IN
            IF s.stopped THEN s
            ELSE IF s.doubled THEN [s EXCEPT !.doubled = FALSE]
            ELSE IF s.quoted /\ ch = "quote" /\ k < Len(text) /\ text[k + 1] = "quote"
                 THEN [s EXCEPT !.field = Append(@, ch), !.doubled = TRUE]
            ELSE IF ch = "quote" THEN [s EXCEPT !.quoted = ~@]
            ELSE IF s.quoted THEN [s EXCEPT !.field = Append(@, ch)]
            ELSE IF ch = "," THEN [s EXCEPT !.record = Append(@, s.field), !.field = <<>>]
            ELSE IF ch = "return" THEN s
            ELSE IF ch = "line"
                 THEN [s EXCEPT !.out = Append(@, Append(s.record, s.field)), !.record = <<>>,
                                !.field = <<>>, !.stopped = Len(s.out) + 1 > MaxRows + 1]
            ELSE [s EXCEPT !.field = Append(@, ch)]
        end == FoldLeft(Take, [out |-> <<>>, record |-> <<>>, field |-> <<>>, quoted |-> FALSE,
                               doubled |-> FALSE, stopped |-> FALSE], [k \in DOMAIN text |-> k])
    IN IF end.field # <<>> \/ end.record # <<>>
       THEN Append(end.out, Append(end.record, end.field)) ELSE end.out

\* The first numbers of an ordered list of candidates, at most MaxRows of them.
FirstRows(numbers) == SubSeq(numbers, 1, Min({MaxRows, Len(numbers)}))

\* A record of one blank field is no row. Once the rows are full, the records left are counted.
ParseCsv(text) ==
    LET records == SplitRecords(text)
        headers == [k \in 1..Min({MaxColumns, Len(records[1])}) |-> HeaderOf(records[1][k], k)]
        Empty(k) == Len(records[k]) = 1 /\ IsBlank(records[k][1])
        numbers == FirstRows(SelectSeq([k \in 1..(Len(records) - 1) |-> k + 1], LAMBDA k : ~Empty(k)))
        At(k, c) == IF c \in DOMAIN records[k] THEN records[k][c] ELSE <<>>
    IN IF records = <<>> THEN [headers |-> <<>>, rows |-> <<>>, rowsTruncated |-> 0]
       ELSE [headers |-> headers,
             rows |-> [n \in DOMAIN numbers |->
                         [rowNumber |-> numbers[n], uncached |-> {},
                          cells |-> CellsOf(headers, LAMBDA c : At(numbers[n], c))]],
             rowsTruncated |-> IF Len(numbers) < MaxRows THEN 0
                               ELSE Len(records) - numbers[MaxRows]]

-----------------------------------------------------------------------------
(* Workbooks *)

\* What a cell holds: the cached value only. A formula without one is said to have none; a cell
\* with neither is no cell; a shared string is looked up.
CellHolds(cell) ==
    IF cell.value = None THEN <<>>
    ELSE IF cell.t # "s" THEN cell.value
    ELSE IF cell.value[1] \in DOMAIN Shared THEN Shared[cell.value[1]] ELSE <<>>

\* Mutation: a cell whose formula has no cached value is no cell.
OnlyCached(row) == SelectSeq(row.cells, LAMBDA c : c.value # None)
\* The cells of a row that say something.
Cells(row) == SelectSeq(row.cells, LAMBDA c : c.value # None \/ c.formula)

\* The <row> elements as the scanner pairs them: one that closes itself is taken to run to the next
\* closing tag, so the row after it is read under the number of the first of them.
Scanned(rows) ==
    LET open == SelectSeq([k \in DOMAIN rows |-> k], LAMBDA k : ~rows[k].closed)
        From(k) == Min({j \in 1..k : \A i \in j..(k - 1) : rows[i].closed})
    IN [n \in DOMAIN open |-> [number |-> rows[From(open[n])].number, cells |-> Cells(rows[open[n]])]]

\* Mutation: rows are numbered as they come, whatever number they carry.
AsTheyCome(scanned) == [k \in DOMAIN scanned |-> k]

\* Each row under its own number or the one after the highest so far; of one number, the last.
RowNumbers(scanned) ==
    FoldLeft(LAMBDA s, r : LET n == IF r.number = None THEN s.highest + 1 ELSE r.number
                           IN [highest |-> Max({s.highest, n}), taken |-> Append(s.taken, n)],
             [highest |-> 0, taken |-> <<>>], scanned).taken

\* The first row is the header and says which columns are read; blank rows are passed over, rows
\* past the ceiling are counted, blank or not.
ReadSheet(rows) ==
    LET scanned == Scanned(rows)
        taken == RowNumbers(scanned)
        numbers == SetToSortSeq(ToSet(taken), <)
        CellsAt(n) == scanned[Max({k \in DOMAIN taken : taken[k] = n})].cells
        top == CellsAt(numbers[1])
        columns == [k \in 1..Min({MaxColumns, Len(top)}) |-> top[k].column]
        InColumn(n, k) == SelectSeq(CellsAt(n), LAMBDA c : c.column = columns[k])
        Held(n, k) == IF InColumn(n, k) = <<>> THEN <<>> ELSE CellHolds(Head(InColumn(n, k)))
        headers == [k \in DOMAIN columns |-> HeaderOf(Held(numbers[1], k), k)]
        Uncached(n) == {headers[k] : k \in {j \in DOMAIN columns :
                           InColumn(n, j) # <<>> /\ Head(InColumn(n, j)).value = None}}
        Empty(n) == \/ CellsAt(n) = <<>>
                    \/ Uncached(n) = {} /\ (\A k \in DOMAIN columns : IsBlank(Held(n, k)))
        read == FirstRows(SelectSeq(Tail(numbers), LAMBDA n : ~Empty(n)))
    IN IF scanned = <<>> THEN [headers |-> <<>>, rows |-> <<>>, rowsTruncated |-> 0]
       ELSE [headers |-> headers,
             rows |-> [k \in DOMAIN read |-> [rowNumber |-> read[k], uncached |-> Uncached(read[k]),
                         cells |-> CellsOf(headers, LAMBDA c : Held(read[k], c))]],
             rowsTruncated |-> IF Len(read) < MaxRows THEN 0
                               ELSE Cardinality({n \in ToSet(numbers) : n > read[MaxRows]})]

\* The archive's directory is refused whole: too many members, one encrypted, one whose name
\* traverses or whose declared size exceeds the ceiling.
Opens(entries) ==
    /\ Len(entries) <= MaxEntries
    /\ \A k \in DOMAIN entries : entries[k].flags \cap {"encrypted", "traversing", "oversized"} = {}

Named(entries, name) == SelectSeq(entries, LAMBDA e : e.name = name)
\* Mutation: of two members of one name the later is read.
LaterMember(entries, name) == LET found == Named(entries, name) IN
    IF found = <<>> THEN None ELSE found[Len(found)]
\* The first member of that name; None when there is none.
Member(entries, name) == LET found == Named(entries, name) IN
    IF found = <<>> THEN None ELSE Head(found)

\* Mutation: sheets are taken by position, whatever the relationships say.
ByPosition(entries, sheet, k) == [part |-> <<"sheet", k>>, noted |-> FALSE]

\* A sheet's part: through the relationships, else the one at its position, which is noted.
SheetRef(entries, sheet, k) ==
    LET rels == Member(entries, <<"rels", 0>>)
        targets == IF rels = None THEN {} ELSE {r \in ToSet(rels.targets) : r[1] = sheet.rid}
        last == IF rels = None THEN 0 ELSE Max({0} \cup {j \in DOMAIN rels.targets : rels.targets[j] \in targets})
    IN IF last > 0 THEN [part |-> rels.targets[last][2], noted |-> FALSE]
       ELSE IF Member(entries, <<"sheet", k>>) # None THEN [part |-> <<"sheet", k>>, noted |-> TRUE]
       ELSE [part |-> None, noted |-> TRUE]

\* parseXlsx: the parts it reads must be stored or deflated and within the ceiling, or the whole
\* workbook is refused; a sheet declared and absent is noted.
ParseXlsx(entries) ==
    LET book == Member(entries, <<"workbook", 0>>)
        refs == IF book = None THEN <<>>
                ELSE [k \in DOMAIN book.sheets |-> SheetRef(entries, book.sheets[k], k)]
        Part(k) == IF refs[k].part = None THEN None ELSE Member(entries, refs[k].part)
        found == SelectSeq([k \in DOMAIN refs |-> k], LAMBDA k : Part(k) # None)
        opened == {Member(entries, n) : n \in {<<"workbook", 0>>, <<"rels", 0>>, <<"sharedStrings", 0>>}}
                  \cup {Part(k) : k \in DOMAIN refs}
    IN IF ~Opens(entries) \/ \E e \in opened \ {None} : e.flags # {} THEN [refused |-> TRUE]
       ELSE [refused |-> FALSE,
             sheets |-> [n \in DOMAIN found |-> [name |-> book.sheets[found[n]].name,
                                                 holds |-> Part(found[n]).rows]],
             notes |-> {book.sheets[k].name : k \in {j \in DOMAIN refs : refs[j].noted \/ Part(j) = None}}
                       \cup (IF found = <<>> THEN {"unreadable"} ELSE {})]

-----------------------------------------------------------------------------
(* What a column looks like, before it is mapped *)

NumberLike(value) ==
    /\ value[1] \in Digits \cup {",", "+", "-"}
    /\ \A k \in 2..Len(value) : value[k] \in Digits \cup {","}
InferType(values) ==
    LET numbers == SelectSeq(values, NumberLike)
    IN IF values = <<>> THEN "empty" ELSE IF 10 * Len(numbers) >= 9 * Len(values) THEN "number" ELSE "text"

Profile(sheet) ==
    [k \in DOMAIN sheet.headers |->
        LET h == sheet.headers[k]
            populated == SelectSeq([n \in DOMAIN sheet.rows |-> sheet.rows[n].cells[h]], LAMBDA v : ~IsBlank(v))
        IN [column |-> h, populated |-> Len(populated),
            blank |-> Len(sheet.rows) - Len(populated),
            distinct |-> Cardinality(ToSet(populated)), inferredType |-> InferType(populated)]]

Profiled(sheet) == [refused |-> FALSE, sheet |-> sheet, profile |-> Profile(sheet)]

\* profileUpload and ingestDocument: the bytes decide which reader reads them.
ReadAs(f, file) ==
    IF f = "PDF" THEN IngestDocument(file)
    ELSE IF f = "XLSX" THEN ParseXlsx(file)
    ELSE IF f = "SHEET" THEN Profiled(ReadSheet(file))
    ELSE Profiled(ParseCsv(file))

Pieces(f) == IF f = "PDF" THEN Blocks ELSE IF f = "XLSX" THEN Entries
             ELSE IF f = "SHEET" THEN Rows ELSE Characters

Extend(file) == pieces' = file /\ reading' = ReadAs(format, file) /\ UNCHANGED format

Init == /\ format \in Formats /\ pieces \in Begun[format]
        /\ reading = ReadAs(format, pieces)

Next == /\ Len(pieces) < MaxPieces[format]
        /\ \E piece \in Pieces(format) : Extend(Append(pieces, piece))

Spec == Init /\ [][Next]_vars

TypeOK ==
    /\ format \in Formats /\ Len(pieces) <= MaxPieces[format]
    /\ ToSet(pieces) \subseteq Pieces(format) \cup UNION {ToSet(b) : b \in Begun[format]}
    /\ reading.refused \in BOOLEAN

-----------------------------------------------------------------------------
(* Reference definitions the readings are held against *)

Reads(f) == format = f /\ ~reading.refused

\* The last block of each object, of a file short enough to be scanned whole.
Current(id) == Max({0} \cup {k \in DOMAIN pieces : pieces[k].id = id})
Ids == {pieces[k].id : k \in DOMAIN pieces}
ScannedWhole == Cardinality(Ids) < MaxObjects

\* Every object a page of the reading is made of, by number.
StreamsOf(id) == SelectSeq(pieces[Current(id)].refs,
                           LAMBDA s : Current(s) > 0 /\ pieces[Current(s)].is = "stream")

\* A page that is not named unread holds every word of the streams its current object points at, in
\* order, from their current objects: nothing superseded, nothing left out, nothing of another
\* page's; and no page is read twice however the tree loops (pdf.ts scanObjects, parsePdf).
PagesHoldTheirWords ==
    Reads("PDF") /\ ScannedWhole =>
        /\ \A k, j \in DOMAIN reading.pages : reading.pages[k].id = reading.pages[j].id => k = j
        /\ reading.complete => \A k \in DOMAIN reading.pages :
              LET streams == StreamsOf(reading.pages[k].id)
              IN SelectSeq(reading.pages[k].text, LAMBDA t : t \in Word) =
                 FlattenSeq([s \in DOMAIN streams |->
                    SelectSeq(pieces[Current(streams[s])].shows, LAMBDA t : t \in Word)])

\* A page is cited by number only where the page tree places it: each cited page is reached from
\* the root, and a page the tree names twice keeps its first place (pdf.ts resolvePageOrder,
\* document.ts readPages).
PageNumbersComeFromTheTree ==
    Reads("PDF") /\ ScannedWhole /\ reading.citedBy = "PAGE" =>
        /\ Current(0) > 0 /\ pieces[Current(0)].refs # <<>>
        /\ LET tree == pieces[Current(0)].refs[1]
               Kids(S) == S \cup UNION {ToSet(pieces[Current(i)].refs) :
                                         i \in {x \in S : Current(x) > 0 /\ pieces[Current(x)].is = "tree"}}
               reached == Kids(Kids(Kids({tree})))
           IN \A k \in DOMAIN reading.pages : reading.pages[k].id \in reached

\* A comma or a line break separates exactly when an even number of quotes comes before it.
Parity(k) == Cardinality({j \in 1..(k - 1) : pieces[j] = "quote"}) % 2
Structural(ch) == {k \in DOMAIN pieces : pieces[k] = ch /\ Parity(k) = 0}
LineOf(k) == 1 + Cardinality({j \in Structural("line") : j < k})

\* Every row of a text is the record at its number, by the parity of the quotes before it: with as
\* many letters and digits as stand there under its headers' columns, and none is skipped while
\* nothing is said to be cut (tabular.ts splitRecords, parseCsv).
RowsAreTheirRecords ==
    Reads("TEXT") /\ Cardinality(Structural("line")) <= MaxRows =>
        \A n \in DOMAIN reading.sheet.rows :
            LET row == reading.sheet.rows[n]
                at == {k \in DOMAIN pieces : LineOf(k) = row.rowNumber /\ pieces[k] \in {"a", "7"}
                         /\ Cardinality({j \in Structural(",") : j < k /\ LineOf(j) = LineOf(k)})
                            < Len(reading.sheet.headers)}
                columns == DOMAIN row.cells
            IN Cardinality(columns) = Len(reading.sheet.headers) =>
                 MapThenSumSet(LAMBDA h : Cardinality({i \in DOMAIN row.cells[h] : row.cells[h][i] \in {"a", "7"}}),
                               columns)
                 = Cardinality(at)

\* No cell that leaves the reader would be run by a spreadsheet: what leads with an execution
\* character is a signed number (tabular.ts neutraliseFormula).
CellsAreInert ==
    (Reads("TEXT") \/ Reads("SHEET")) => \A n \in DOMAIN reading.sheet.rows :
        \A h \in DOMAIN reading.sheet.rows[n].cells :
            LET v == reading.sheet.rows[n].cells[h]
            IN v # <<>> /\ v[1] \in ExecutionPrefix => \A k \in 2..Len(v) : v[k] # "a"

\* In a sheet whose rows carry their own numbers, none closing itself: a row is found under its
\* number with what the last row of that number holds, a formula without a value is never read as
\* an empty cell, and every row not read is blank or counted (xlsx.ts readSheet).
Plain == \A k \in DOMAIN pieces : ~pieces[k].closed /\ pieces[k].number # None
RowsKeepTheirNumbers ==
    Reads("SHEET") /\ pieces # <<>> /\ Plain =>
        LET numbers == {pieces[k].number : k \in DOMAIN pieces}
            LastOf(n) == pieces[Max({k \in DOMAIN pieces : pieces[k].number = n})]
            first == Min(numbers)
            Heads(c) == \E h \in ToSet(LastOf(first).cells) :
                           h.column = c.column /\ (h.formula \/ h.value # None)
            Told(n) == \E c \in ToSet(LastOf(n).cells) : Heads(c) /\ (c.formula \/ c.value # None)
            read == {reading.sheet.rows[k].rowNumber : k \in DOMAIN reading.sheet.rows}
        IN /\ read \subseteq numbers \ {first}
           /\ \A k \in DOMAIN reading.sheet.rows : \A c \in ToSet(LastOf(reading.sheet.rows[k].rowNumber).cells) :
                 Heads(c) /\ c.value = None /\ c.formula => reading.sheet.rows[k].uncached # {}
           /\ {n \in numbers \ {first} : Told(n)} # read => reading.sheet.rowsTruncated > 0

\* A sheet read without a note holds what the part its relationship names holds, the first of
\* that name; a sheet that is not what its relationship says is named (xlsx.ts readSheetRefs).
SheetsAreTheirParts ==
    Reads("XLSX") => \A n \in DOMAIN reading.sheets : reading.sheets[n].name \notin reading.notes =>
        LET First(name) == Min({Len(pieces)} \cup {k \in DOMAIN pieces : pieces[k].name = name})
            sheet == CHOOSE s \in ToSet(pieces[First(<<"workbook", 0>>)].sheets) : s.name = reading.sheets[n].name
            rels == pieces[First(<<"rels", 0>>)].targets
            named == {k \in DOMAIN rels : rels[k][1] = sheet.rid}
        IN named # {} /\ LET part == rels[Max(named)][2] IN pieces[First(part)].rows = reading.sheets[n].holds

=============================================================================
