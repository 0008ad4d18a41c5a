---------------------------- MODULE VectorTables ----------------------------
(****************************************************************************)
(* A table of the vector database and the plugins that fill it              *)
(* (doc-vector-store/src/lib.rs over plugin-host/src/host/providers/        *)
(* vectordb.rs).  A plugin looks whether the table is there, makes it after *)
(* its own rows if it may, reads its schema, puts its rows into columns and *)
(* hands them to the host with the index of the column to embed; the host   *)
(* asks the embedding service and writes.  Each of these is a call of its   *)
(* own, and other plugins, or the same one for another user, run between    *)
(* them.                                                                    *)
(*                                                                          *)
(* A row of a request is a function from field names to values.  The        *)
(* database (LanceDB) is external: a table is created once, and a write is  *)
(* atomic.  Floats and lists are left out, flags stand for what the host    *)
(* has no array for.                                                        *)
(****************************************************************************)
EXTENDS Selections, SequencesExt, FiniteSetsExt

CONSTANTS
    Plugins,      \* instances of the plugin
    Requests,     \* what they may be asked
    MaxCalls      \* requests in all

\* Rows have finitely many fields; the numbers of this model are integers.
IsRows(rows) ==
    /\ IsSeq(rows)
    /\ \A r \in DOMAIN rows :
          /\ IsFiniteSet(DOMAIN rows[r])
          /\ \A name \in DOMAIN rows[r] :
                "num" \in DOMAIN rows[r][name] => rows[r][name].num \in Int

IsColumns(columns) == IsSeq(columns) /\ \A i \in DOMAIN columns : IsSeq(columns[i])

ASSUME VectorAssumption ==
    /\ MaxCalls \in Nat
    /\ \A request \in Requests :
          /\ request.action \in {"add_rows", "add_columns", "create_table"}
          /\ request.action = "add_rows" => IsRows(request.rows)
          /\ request.action = "add_columns" =>
                IsColumns(request.columns) /\ IsSeq(request.names)
          /\ request.action = "create_table" => IsSeq(request.schema)

VARIABLES
    table,        \* its schema and rows
    calls,        \* of each plugin: how far its request is
    begun         \* requests begun

vectorVars == <<table, calls, begun>>

NoTable == [there |-> FALSE]

Text(t) == [text |-> t]
Number(n) == [num |-> n]
Flag(b) == [bool |-> b]
Null == [null |-> TRUE]

IsText(v) == "text" \in DOMAIN v
IsNumber(v) == "num" \in DOMAIN v
IsFlag(v) == "bool" \in DOMAIN v

Field(name, type) == [name |-> name, type |-> type]
FieldNames(schema) == [i \in DOMAIN schema |-> schema[i].name]

\* embedding_index: the first FixedSizeList (0: there is none).
EmbeddingIndex(schema) == SelectInSeq(schema, LAMBDA field : field.type = "vector")

\* The position of a field (0: there is none).
FieldIndex(schema, name) == SelectInSeq(schema, LAMBDA field : field.name = name)

ValueOf(row, name) == IF name \in DOMAIN row THEN row[name] ELSE Null
------------------------------------------------------------------------------
Fields(rows) == UNION {DOMAIN rows[r] : r \in DOMAIN rows}

ColumnOf(rows, name) == [r \in DOMAIN rows |-> ValueOf(rows[r], name)]

\* Mutant: a column of numbers is unsigned.
InferUnsigned(column) ==
    CASE column = <<>> -> "utf8"
      [] \A r \in DOMAIN column : IsFlag(column[r]) -> "bool"
      [] \A r \in DOMAIN column : IsNumber(column[r]) -> "uint64"
      [] OTHER -> "utf8"

InferColumnType(column) ==
    IF column = <<>> THEN "utf8"
    ELSE IF \A r \in DOMAIN column : IsFlag(column[r]) THEN "bool"
    ELSE IF \A r \in DOMAIN column : IsNumber(column[r])
         THEN IF \E r \in DOMAIN column : column[r].num < 0 THEN "int64" ELSE "uint64"
    ELSE "utf8"

\* infer_schema: the embeddings come last.
InferSchema(columns, names) ==
    [i \in DOMAIN names |-> Field(names[i], InferColumnType(columns[i]))]
        \o <<Field("embeddings", "vector")>>

\* Mutant: the columns of the request, in the order of its own fields.
ColumnsOfRequest(schema, rows) ==
    LET names == SetToSeq(Fields(rows)) IN [i \in DOMAIN names |-> ColumnOf(rows, names[i])]

\* to_add: a column for each field of the schema but the embeddings.
ToAdd(schema, rows) ==
    LET names == FieldNames(RemoveAt(schema, EmbeddingIndex(schema)))
    IN  [i \in DOMAIN names |-> ColumnOf(rows, names[i])]
------------------------------------------------------------------------------
(****************************************************************************)
(* json_columns_to_arrow_arrays.  Anything can be a string; columns are     *)
(* counted by the fields of the schema, the embeddings among them.          *)
(****************************************************************************)
Fits(v, type) ==
    \/ type = "utf8"
    \/ type = "int64" /\ IsNumber(v)
    \/ type = "uint64" /\ IsNumber(v) /\ v.num >= 0

Converted(v, type) == IF type = "utf8" /\ ~IsText(v) THEN [written |-> v] ELSE v

Convertible(schema, columns) ==
    \A i \in DOMAIN schema \ {EmbeddingIndex(schema)} :
       /\ i \in DOMAIN columns
       /\ \A r \in DOMAIN columns[i] : Fits(columns[i][r], schema[i].type)

Embedding(v) == [embedding |-> v]

\* The rows that are written; given is what the request said of each.
Batch(schema, columns, embed, given) ==
    [r \in DOMAIN columns[1] |->
        [cells |-> [i \in DOMAIN schema |->
                      IF i = EmbeddingIndex(schema) THEN Embedding(columns[embed][r])
                      ELSE Converted(columns[i][r], schema[i].type)],
         given |-> given[r]]]

\* table.add, or merge_insert on the field of position at.
Written(rows, batch, at) ==
    IF at = 0 THEN rows \o batch
    ELSE Kept(rows, { k \in DOMAIN rows :
                        ~ \E r \in DOMAIN batch : batch[r].cells[at] = rows[k].cells[at] })
         \o batch
------------------------------------------------------------------------------
Unasked == [pc |-> "idle", created |-> FALSE]

To(p, call) == calls' = [calls EXCEPT ![p] = call]
At(p, pc) == To(p, [calls[p] EXCEPT !.pc = pc])
RequestOf(p) == calls[p].request

VectorInit ==
    /\ table = NoTable
    /\ calls = [p \in Plugins |-> Unasked]
    /\ begun = 0

\* rows_to_columns wants a row, add_columns an index of a column.
Readable(request) ==
    CASE request.action = "add_rows" -> request.rows # <<>>
      [] request.action = "add_columns" -> request.embed \in DOMAIN request.columns
      [] OTHER -> TRUE

\* A request is read.
ReadRequest(p) ==
    /\ calls[p].pc \in {"idle", "done", "failed", "refused"} /\ begun < MaxCalls
    /\ begun' = begun + 1
    /\ \E request \in Requests :
          To(p, [pc |-> IF ~Readable(request) THEN "refused"
                        ELSE IF request.action = "create_table" THEN "create" ELSE "ensure",
                 request |-> request, created |-> FALSE])
    /\ UNCHANGED table

\* create_table with the schema of the request.
CreateTable(p) ==
    /\ calls[p].pc = "create"
    /\ IF table = NoTable
       THEN table' = [schema |-> RequestOf(p).schema, rows |-> <<>>] /\ At(p, "done")
       ELSE UNCHANGED table /\ At(p, "failed")
    /\ UNCHANGED begun

\* ensure_table_exists: the names of the tables.
Ensure(p) ==
    /\ calls[p].pc = "ensure"
    /\ At(p, IF table # NoTable THEN "schema"
             ELSE IF RequestOf(p).create THEN "make" ELSE "failed")
    /\ UNCHANGED <<table, begun>>

\* ... and the table, after the rows; their fields come in the order of a hash
\* set.  Somebody else may have made it since.
Make(p) ==
    /\ calls[p].pc = "make"
    /\ LET request == RequestOf(p)
       IN  \E names \in IF request.action = "add_rows" THEN SetToSeqs(Fields(request.rows))
                        ELSE {request.names} :
              LET columns == IF request.action = "add_rows"
                             THEN [i \in DOMAIN names |-> ColumnOf(request.rows, names[i])]
                             ELSE request.columns
              IN  IF table = NoTable /\ Len(columns) = Len(names)
                  THEN /\ table' = [schema |-> InferSchema(columns, names), rows |-> <<>>]
                       /\ To(p, [calls[p] EXCEPT !.pc = "schema", !.created = TRUE])
                  ELSE UNCHANGED table /\ At(p, "failed")
    /\ UNCHANGED begun

\* The columns for the host: those of add_columns as they are, those of
\* add_rows after get_table_schema_json_str.
Prepare(p) ==
    /\ calls[p].pc = "schema"
    /\ LET request == RequestOf(p)
           at == FieldIndex(table.schema, request.key)
       IN  IF request.action = "add_columns"
           THEN To(p, [pc |-> "embed", request |-> request, created |-> calls[p].created,
                       columns |-> request.columns, embed |-> request.embed])
           ELSE IF at = 0 \/ EmbeddingIndex(table.schema) = 0
           THEN At(p, "refused")
           ELSE To(p, [pc |-> "embed", request |-> request, created |-> calls[p].created,
                       columns |-> ToAdd(table.schema, request.rows), embed |-> at])
    /\ UNCHANGED <<table, begun>>

\* DbConn::add up to embeddings_create: the table and its schema are there, the
\* columns are of one length and the one to embed is text; the service answers
\* or fails.  An index that is out of bounds panics.
Embed(p) ==
    /\ calls[p].pc = "embed"
    /\ LET columns == calls[p].columns
           embed == calls[p].embed
       IN  IF /\ EmbeddingIndex(table.schema) # 0
              /\ \A i \in DOMAIN columns : Len(columns[i]) = Len(columns[1])
              /\ embed \in DOMAIN columns
              /\ \A r \in DOMAIN columns[embed] : IsText(columns[embed][r])
           THEN At(p, "write") \/ At(p, "failed")
           ELSE At(p, "refused")
    /\ UNCHANGED <<table, begun>>

\* What a request says of row r, and the text of it that is to be embedded.
Given(request) ==
    IF request.action = "add_rows"
    THEN [r \in DOMAIN request.rows |->
            [of |-> "row", row |-> request.rows[r], text |-> ValueOf(request.rows[r], request.key)]]
    ELSE [r \in DOMAIN request.columns[1] |->
            [of |-> "columns", row |-> [i \in DOMAIN request.columns |-> request.columns[i][r]],
             text |-> request.columns[request.embed][r]]]

\* ... and after it.
Write(p) ==
    /\ calls[p].pc = "write"
    /\ LET request == RequestOf(p)
           at == FieldIndex(table.schema, request.upsert)
           batch == Batch(table.schema, calls[p].columns, calls[p].embed, Given(request))
       IN  IF Convertible(table.schema, calls[p].columns) /\ (request.upsert = "" \/ at # 0)
           THEN /\ table' = [table EXCEPT !.rows = Written(@, batch, at)]
                /\ At(p, "done")
           ELSE UNCHANGED table /\ At(p, "refused")
    /\ UNCHANGED begun

\* delete, with a predicate about the first field.
Delete ==
    /\ table # NoTable
    /\ \E r \in DOMAIN table.rows :
          table' = [table EXCEPT !.rows =
                      Kept(@, { k \in DOMAIN @ : @[k].cells[1] # @[r].cells[1] })]
    /\ UNCHANGED <<calls, begun>>

VectorNext ==
    \/ \E p \in Plugins :
          ReadRequest(p) \/ CreateTable(p) \/ Ensure(p) \/ Make(p) \/ Prepare(p) \/ Embed(p) \/ Write(p)
    \/ Delete

VectorSpec == VectorInit /\ [][VectorNext]_vectorVars
------------------------------------------------------------------------------
\* What field i of the schema should hold for a row of a request: the value of
\* that name, or the one of that column.
Expected(schema, given, i) ==
    IF i = EmbeddingIndex(schema) THEN Embedding(given.text)
    ELSE Converted(IF given.of = "row" THEN ValueOf(given.row, schema[i].name) ELSE given.row[i],
                   schema[i].type)

(****************************************************************************)
(* Every value is in its field and every embedding is of the text its       *)
(* request named, whoever made the table, after whose rows, and in whatever *)
(* order a hash set gave its fields (to_add and to_embed_index of the       *)
(* plugin, columns[i] of the host).                                         *)
(****************************************************************************)
RowsAsGiven ==
    table # NoTable =>
       \A r \in DOMAIN table.rows :
          \A i \in DOMAIN table.schema :
             table.rows[r].cells[i] = Expected(table.schema, table.rows[r].given, i)

\* Rows of texts and numbers, with a text to embed in each, and a key among
\* the fields.
Plain(request) ==
    /\ request.action = "add_rows"
    /\ request.upsert \in Fields(request.rows) \cup {""}
    /\ \A r \in DOMAIN request.rows :
          /\ IsText(ValueOf(request.rows[r], request.key))
          /\ \A name \in DOMAIN request.rows[r] : ~IsFlag(request.rows[r][name])

(****************************************************************************)
(* A table that was made after some rows takes them: the types that         *)
(* infer_column_type reads off the values are types the host converts these *)
(* values to (json_columns_to_arrow_arrays).                                *)
(****************************************************************************)
MadeTablesTakeRows ==
    \A p \in Plugins :
       calls[p].created /\ Plain(RequestOf(p)) => calls[p].pc # "refused"

(****************************************************************************)
(* The same of all rows: not so, there is no array for flags and lists, and *)
(* the table that was made for them stays and takes no row ever.            *)
(****************************************************************************)
MadeTablesTakeAllRows ==
    \A p \in Plugins :
       /\ calls[p].created
       /\ RequestOf(p).action = "add_rows"
       /\ \A r \in DOMAIN RequestOf(p).rows : IsText(ValueOf(RequestOf(p).rows[r], RequestOf(p).key))
       => calls[p].pc # "refused"
==============================================================================
