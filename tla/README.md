# A TLA+ model of openddl-parser

openddl-parser is a small C++ library that reads texts in the Open Data
Description Language into a tree of nodes and writes such trees back to a file.
This directory holds TLA+ modules that model the library from its source, TLC
configurations that check them on small instances, and proofs, checked by the
TLA+ proof system, of what matters most for instances of every size.

Paths below are relative to the repository. `PROJECT.json` maps every definition
to the lines it was translated from.

## 1. The system

| Component | Source | State it keeps | Operations |
|---|---|---|---|
| parser object | `code/OpenDDLParser.cpp`, `OpenDDLParser.h` | `m_buffer`, `m_context`, `m_stack`, the log callback | `setBuffer`, `clear`, `parse`; inside it `parseNextNode`, `parseHeader`, `parseStructure`, `parseStructureBody`, `parseDataList`, `parseDataArrayList`, `parseReference`, the literal parsers |
| lexical helpers | `OpenDDLParserUtils.h`, `lookForNextToken` and `getNextToken` in `OpenDDLParser.h`, `parseIdentifier`, `parseName`, `parseProperty`, `normalizeBuffer`, `validate` | none | tests on characters, cursor movements |
| node tree and registry | `code/DDLNode.cpp`, `DDLNode.h` | parent, children, payload of each node; the static vector `s_allocatedNodes` | `create`, `attachParent`, `detachParent`, destructor, `setProperties`, `setValue`, `setDataArrayList`, `setReferences`, getters, `dump` |
| common data types | `code/OpenDDLCommon.cpp`, `OpenDDLCommon.h` | the strings, names, references, properties and array entries a parse makes; `Context` with the root | constructors, destructors, comparison, `DataArrayList::size`, `Context::clear` |
| values | `code/Value.cpp`, `Value.h` | a tag, a size and raw bytes; a chain `m_next` | `ValueAllocator::allocPrimData`, setters, getters, `Value::Iterator`, `dump` |
| exporter | `code/OpenDDLExport.cpp`, `OpenDDLExport.h` | the stream it owns | `exportContext`, `handleNode`, `writeNode`, `writeValue` and the other `write` functions |
| output stream | `code/OpenDDLStream.cpp`, `OpenDDLStream.h` | one `FILE*` | `open`, `close`, `read`, `write`, `size` |
| pool allocator | `TPoolAllocator.h` | a chain of pools, the pool in use, the free list, `m_capacity` | `alloc`, `release`, `reserve`, `clear`, `resize`, `dumpAllocations`, `capacity`; no file of the library uses it |
| demo, fuzz target, tests, vendored googletest, build files, docs | `demo`, `.clusterfuzzlite`, `test`, `contrib`, `cmake`, `doc`, `.github` | none | |

How they meet. A client hands a text to a parser; `parse()` makes a `Context`
with a root node and descends the text recursively. `parseHeader` creates a
`DDLNode` below `top()` of `m_stack` and pushes it, the data functions make
chains of `Value`, `Reference` and `DataArrayList` objects and give them to
`top()`, and `parseStructure` pops at a closing brace. The client reads the tree
through the getters and through `Value::Iterator`, and destroys it by deleting the
parser, by `clear()`, or by the next `setBuffer`. `OpenDDLExport::exportContext`
walks the tree of a context and writes through an `IOStreamBase`. All parsers
of a process share `s_allocatedNodes`. There are no threads in the library, no
callbacks that come back into it, and nothing that survives the process but the
exported file; but a program may well have a parser on each of its threads, and
those meet in `s_allocatedNodes`, which nothing guards.

What is hard, then, is above all ownership and position: raw
pointers that several objects hold, a stack that outlives the nodes it points
to, pushes and pops in different functions with returns between them, cursors
that must move on every text, lists that are chained through a local pointer
over many turns of a loop, widths that do not match, an exporter whose
errors are not passed on, and a vector that two threads change at once.
`PROJECT.json` lists each hazard at its line.

What makes each component correct:

* parser: on a well-formed text it succeeds with the tree that the brackets
  describe, whatever it was used for before; on every text it returns; the node
  it adds to exists; all it creates hangs below the root.
* node tree: links agree in both directions; a delete destroys exactly a subtree
  and ends; nothing is destroyed twice; payloads have one owner; the registry
  names exactly the living nodes.
* registry, used by several threads: no access to memory that is gone, no living
  node missing, no slot cleared that is another node's; where this does not hold,
  which interleavings are to blame.
* comments: what is outside comments is kept, in its order, and nothing else.
* headers: each object has one owner on each way out, and what the exporter
  writes is read back.
* data lists: every object that is made is on exactly one chain, in order; each
  list of an array has its entry.
* values: a literal that its type can hold is held, and of one that it cannot it is
  known what is left; a value whose text says all of it is read back as the same value.
* exporter: it visits nodes in document order, once; files are closed and only
  grow; success means written.
* pool allocator: an item is handed out once, and lies in a pool; no pool is lost or
  doubled; only an allocator without pools follows a null pointer.

## 2. The modules

| Module | Models | Checked by |
|---|---|---|
| `Induction` | lemmas: induction over the natural numbers, and recursive functions, for sets and functions in place of formulas | the proof system |
| `DDLNode` | class `DDLNode` and the registry; addresses are used again | `node_tree`, `node_attach` |
| `NodeForest` | abstract: a forest in which deleting is one step | refined by `DDLNode` |
| `DDLNodeProofs` | theorems about `DDLNode`, among them the refinement of `NodeForest` | the proof system |
| `DDLRegistry`, `MCDDLRegistry` | the registry, used by several threads at once | `registry` |
| `DDLRegistryProofs` | theorems about `DDLRegistry` | the proof system |
| `DDLComments`, `MCDDLComments` | `normalizeBuffer`, character by character | `comments` |
| `DDLCommentsProofs` | theorems about `DDLComments` | the proof system |
| `DDLTokens` | texts as the character tests see them; identifiers, names, properties | used by the next ones |
| `DDLParser` | a parser object, `parse()` function by function, over several parses | `parser` |
| `DDLDocument` | abstract: the tree of a text, read off its brackets, without a stack or a cursor | refined by `DDLParser` |
| `MCDDLParser` | the texts, and the refinement mapping | |
| `DDLParserProofs` | theorems about `DDLParser` | the proof system |
| `DDLHeader`, `MCDDLHeader` | one header with its objects; `Value::setRef`; `hasProperty`; `writeNodeHeader`, `writeProperties` | `header_objects`, `header_find`, the proof system |
| `DDLData`, `MCDDLData` | `parseDataList`, `parseReference`, `parseDataArrayList`, `DataArrayList::size`, `Value::Iterator` | `data_lists`, the proof system |
| `DDLDataProofs` | theorems about `DDLData` | the proof system |
| `DDLValue`, `MCDDLValue` | one value between text and memory: literal parsers, `Value`, `writeValue` | `value_trips`, the proof system |
| `OpenDDLExport`, `MCOpenDDLExport` | exporter and stream, with failing files | `export_walk`, `export_success` |
| `OpenDDLExportProofs` | theorems about `OpenDDLExport`, the values it writes (`DDLValue`) and the headers (`DDLHeader`) | the proof system |
| `TPoolAllocator`, `MCTPoolAllocator` | the pool allocator | `pool` |
| `TPoolAllocatorProofs` | theorems about `TPoolAllocator` | the proof system |

How they fit together. `DDLComments` gives what `DDLTokens` calls a normalized text.
`DDLParser` takes a header in one step, from `DDLTokens`; `DDLHeader` takes it call by
call and object by object, and its invariant `SummaryAgrees` says that the two
come to the same cursor, verdict, node, name and property on every header that does not
read past the end, which is proved for every text of the tokens they share
(`HeaderSummaryAgrees`). A
data list is one step for each literal in `DDLParser`, which counts them, and in `DDLData`,
which keeps what they leave; a literal becomes a number in `DDLValue`. `DDLHeader` and
`DDLValue` also hold the exporter's side of a header and of a value, so that what is
written can be read back in one module.

### How state and actions correspond to the code

**DDLNode.** An element of `Node` is an address. `live` are the objects allocated;
`parent`, `children`, `idx`, `properties` are the members of the same names;
`value` stands for `m_value`, and for `m_dtArrayList` and `m_references`, which the
class treats alike. Each method is an action. A destructor is split at its
loop: `EnterDestructor` is what it does in front of the loop, `DeleteChild` one turn of
the loop, `Deallocate` the return. `dtors` is the stack of activations. Deleting
what is not alive is undefined in C++; the model records it in `fault` and
stops. `Next` has every call the class accepts; `OwnerNext` the calls of a client
that keeps the ownership rule the parser keeps: only parentless nodes are
attached, nodes are detached before they are deleted, and a value is given once.
`SetProperties` and `SetValue` take fresh objects, as all callers in the code do.

**DDLRegistry.** Each access of `create` and of the destructor to the vector is an
action of a thread, and `push_back`, which is not code of the repository, is modelled
as the three-pointer vector of the common libraries: `start`, `finish` and `end`
point into numbered blocks of `mem`; a growth copies the slots, frees the older
block and replaces the pointers one by one. `++finish` may use the register or
read memory again, as a compiler is free to. A node's identity is not used again
here (`DDLNode` has addresses that come back, for one thread). `mixed` and `raced`
are history: two creates, or two pushes, or a growth and another access, have
overlapped. The library promises nothing about threads, so the properties say
what holds up to such an overlap; the bare `~fault` does not hold.

**DDLComments.** A character is what the tests tell apart. The new buffer is kept
as positions, so that order and doubling can be stated. `isComment` reads
two characters behind `//` without a look at the end: behind the end of the buffer
the model takes any character. normalizeBuffer asks `isComment` twice at the same
place; the model lets both calls see the same answer.

**DDLHeader.** One action for each call that `parseHeader` and `parseProperty` make.
An object is a record of `heap` with the objects it owns, numbered in order of
allocation, and `live` are those not deleted. A text is a sequence of tokens set
apart by blanks, with two exceptions that the code is sensitive to: a comma
stands directly behind the token before it, and `=.` is an equals sign with no
blank behind it. `SetRef` is a client that puts the node's reference into a `Value`;
node and value are deleted in either order. A header that ends behind an
equals sign makes the code read behind the buffer (`ReadPastEnd`). `Headers` has every kind of
value that `writeValue` writes differently and `parseProperty` reads differently
(`WrittenValue`): integers, reals as the stream may write them, with a point, without or with an
exponent, bools, strings with and without a quotation mark, and what nothing is written of.

**DDLTokens.** A text is a sequence of tokens, blank-separated, with no blank at
its end (a blank in front of the end can make one more turn of a loop, which is
left out). A comma counts as a blank to `lookForNextToken`, so it is a token only
where the code looks for it itself: directly behind a closing brace (`},`). `id`
is a word of at least two letters that does not begin with the name of a type,
because `parsePrimitiveDataType` compares prefixes and would take `reference` for a
`ref`; `num` is one digit. `primcut` is a type with an array suffix that lacks its
closing bracket: `parsePrimitiveDataType` looks for the bracket in all the rest of the buffer
(`PrimitiveType`), and finds that of a later type or none. `//` stands for a comment of
either form.

**DDLParser.** One action per function of the descent; the functions keep nothing
but the cursor `in` across their recursion, so the call stack is `depth`, the number
of open `parseStructure` activations. Nodes are numbered in order of creation and
numbers are not used again, so that an old pointer on `m_stack` is visible
as a member of `freed`. `content[n]` is what a client can read of a node. The cursor is moved
as the code moves it, also where that is past the end: behind an equals sign that ends the
text (`getNextToken`) and behind an array list that the text is cut off in
(`parseDataArrayList`). There, and where a type name or an open array suffix ends the text
(`BadBody`) or a freed node is used (`BadHeader`, `BadData`), the next thing the code does is to
read behind the buffer or through the old pointer; nothing is known of the
execution after that (`undefined`). `TypeOK` names the place where the cursor is past the end.
`headed` says that each structure of this parse had a header that made a node:
`parseStructure` pops at every closing brace, also of a block without a header,
which pops the node of the enclosing structure; several properties hold exactly
as long as this has not happened.

**DDLData.** An object is named by the place of its literal. The loop of
`parseDataList` is `ParseLiteral` or `ParseName`/`MakeReference`, ended by `Turn`;
`Return` is the turn of `parseDataArrayList`. `Makes` says which literals make a
value in a list of each type, as the literal parsers decide it. A literal is a whole
token, so `TextsAssumption` has a separator behind each. `WellFormedArray` is what a
writer of the format takes for an array; each closing brace in it ends an inner list, which
begins behind the outer brace. Behind an array `Return` takes the cursor one place on without
a look at the end, as the code does. (The proof of `ListsMatch` needs the last clause: without
it `{ } , { $a } }` would count, of which the code reads the first `}` as the end.)

**DDLValue.** A byte has `Byte` values, so that all widths can be scaled
down together; an integer type has the numbers of its bytes (`Span`), half of them negative
in a signed one. A float is scaled by two constants: `Precision`, the decimal digits
that it keeps for certain, six, which are also those a stream writes, and `FloatWhole`, up to which it
holds every integer. A real number is its integral part and how many decimal places it has.
A cast to float keeps a number whose digits, those of the integral part counted, are no more than
`Precision`, or an integer up to `FloatWhole`; any other becomes one of the numbers
near it (`Rounded`). The stream does the same to six digits (`Streamed`), and writes what is longer
in front of the point with an exponent (`StreamedForm`). `Parsed` is the dispatch of
`parseDataList` and `parseProperty`, as the set of values a text may become; `WrittenText`
the texts `writeValue` may write. A literal of any form may meet any declared type: a
hexadecimal one or one with an exponent in a list of integers is what `atoll` makes of it
(`Digits`). A string may have a quotation mark in it, which ends it when it is parsed.
Left out: which digits stand behind the point, numbers between -1 and 0, doubles of more
digits than a double keeps, infinities, and `bool` literals, of which the parser makes nothing.

**OpenDDLExport.** `frames` are the activations of `handleNode`, each with its
iterator's `m_idx`. `Open` and `WriteNode` may fail. `writeNode` composes header,
properties and data, but assigns `"}"` to its statement at the end, so the
model writes that (`Statement`).

**TPoolAllocator.** One action per operation; `alloc` is two, by whether the pool in
use is full. An item is the pool and the index a pointer stands for. `release()` and
`clear()` walk the chain from `m_first`; the model resets or deletes all pools, and
`ChainComplete` says that this is the same. Sizes may be 0: in a pool of no items the
index leaves 0 without a test, and grows without end, so `MaxItems` bounds it.
`DumpAllocations` changes nothing but may follow the null `m_current`; `fault` says which call
followed one. `CPPCORE_NONE_COPYING`
is not defined in the repository, so the header compiles only in a program that
defines it, and the constructor with a number of items never does.

In every module some definitions come with a variant in front of them, such as
`EraseNothing` before `Erase`. Nothing in a specification uses a variant; each is a
mistake the code could plausibly have made, under which one of the properties
fails.

## 3. The runs

All runs use `CHECK_DEADLOCK FALSE`: a client may stop calling, a parse or an
exporter that has met undefined behaviour does not go on, and a text that made
no value stays dropped. That what must end does end is stated as liveness.

| Run | Instance | Shows |
|---|---|---|
| `node_tree` | 3 addresses, 2 payload objects, 3 creations; 175 571 states | For an owner: no double destruction, links agree, the registry is exact although addresses come back, payloads are owned once and none is held after its release, every delete ends, and running destructors child by child has the effect of destroying the subtree in one step (`NodeForest`). |
| `node_attach` | 3 addresses | `attachParent` leaves the node in the older parent's list, although the header says the older one is released. |
| `registry` | 2 threads that may change places, 2 nodes each; 213 626 states | Memory is safe and living nodes are registered as long as pushes do not overlap and no growth runs into another access (`NoFaultUnraced`, `LivingRegistered`); a destructor clears no other node's slot, even between the compare and the write and when two nodes remember one index (`ClearsOwnOnly`); the registry is exact when creates do not overlap, whatever destructors do meanwhile (`ExactUnmixed`). |
| `parser` | a new parser on every document of a grammar, on all texts one token away from a selection of them, and on all texts of up to 4 tokens; one object for three parses of good, rejected, cut-off, headless and comment-only texts; 160 808 states | Types and cursor bounds; the node the parser adds to is alive; the nodes form a forest; data are given once; nodes get out of reach in two known ways only, and `clear` and `setBuffer` destroy the tree of the context and nothing else (`LostOnlyKnown`); `parse()` returns on every text; the tree of a well-formed text is that of `DDLDocument`, whatever the object parsed before. |
| `comments` | every buffer of up to 5 characters, and of up to 7 out of four characters; 253 431 states | What is kept is what a lexer of `//` and `/* */` comments keeps, but on the texts named by `Peculiar`; the result is a subsequence; the loops end. |
| `header_objects` | all texts of up to 4 tokens, headers put together from names, keys, values and tails, and what the exporter writes for up to two properties; 240 653 states | Each object has one owner and none is used after its deletion, with a client's copy of a reference in play; which written headers are read back, whole, without their property or not at all; only refused headers and values that are not read lose objects; `DDLTokens` summarises headers rightly. |
| `header_find` | same | `hasProperty("id")` is true of a node whose property is `idx`. |
| `data_lists` | every type; lists of up to 3 literals with every separator, arrays of up to 3 lists, cut-off texts; 178 254 states | No value is lost, doubled or out of order; no name is lost where commas directly follow names; arrays have one entry for each list with content; the loops end. |
| `value_trips` | bytes of 2 bits, floats of three digits and of all integers up to 4096, numbers around every limit, literals of every form under every type, two round trips; 183 148 states | What becomes of each literal (`LiteralKept`); integers from 0 on that fit an `int`, strings without a quotation mark and reals of a float's precision are read back as they were written, and as nothing else (`WrittenReadsBack`). |
| `export_walk` | every tree of up to 5 nodes, any of them without values, 2 exports with failing files; 215 012 states | Nodes are written in document order (less the first children), saved iterators are enough, no handle is lost by one export, files only grow. |
| `export_success` | same, 1 export | `true` is returned although a write failed. |
| `pool` | 4 pools of 0 to 2 items, up to 3 items out of one of them; 30 946 states | No item is handed out twice, indices stay inside pools but for a pool of no items, the free list is the rest of the chain, the chain holds every pool, capacity is exact, and a null pointer is followed only when there is no pool: by `resize` after `clear()`, and by `dumpAllocations`. |

Type invariants that no theorem states alone are a conjunct of a property of their
module: of `OwnedOnce`, `ValuesOwned`, `LiteralKept`, `CommentsStripped`,
`LivingRegistered` and `ItemsDistinct`.

### Bounds, and why they are enough

* `MaxSlots = 3` creations on 3 addresses: the smallest in which a node has two
  children or a grandchild, and an address is used again while another
  node lives. The theorems of section 4 have no bound.
* `MaxParses = 3`: a good text after a text that failed after one that failed;
  `StackInv` holds for every number (section 4). Only the texts in `MCReused` are parsed
  by an object that goes on; each of them leaves another kind of rest on `m_stack`. `MaxNodes` is only larger than
  what the texts can create: no run reaches it.
* Texts: the grammar has names, properties, lists, lists of lists, children next
  to data, and three levels of structures; the one-token edits and the short
  texts are there to reach the error returns. Every action is taken.
* `Call` lets a client replace a text only when it was parsed or is empty: a text
  replaced before it is parsed leaves nothing behind.
* `Byte = 4` keeps the four widths apart (2, 4, 8 and 16 bits) and makes their
  limits small; the conversions are the same expressions at `Byte = 256`, for which the
  theorems hold as well. A bad digit
  in a hexadecimal literal is left out of the inputs. `Precision = 3` and `FloatWhole = 4096`
  scale a float down in the same way, and `MaxPlaces = 6` is twice the precision, and
  two more than the four places from which a stream takes an exponent. Two round trips: what is written of
  what was read back is written again.
* Two threads with two nodes each: the vector grows from nothing to one, two and four
  slots, so a growth meets a push, a compare and a clear of the other thread, and
  both creates can find room or none.
* Seven characters hold two comments that touch, a comment in another and the
  rules at the end of the buffer, which look at most three characters ahead.
* Two properties in a written header are where the parser begins to refuse; four
  tokens reach each error return of a header.
* Four pools of different sizes, 0 among them: a chain of three in which the middle one is in
  use while one follows on the free list, and one more after a `clear()`. `MaxItems = 3` is
  one more than the largest size, so that the index of a pool of no items runs past every size.
* Five nodes give every shape of tree with three generations or with siblings
  on two levels; two exports are needed to see the handle overwritten.

### Fairness

`WF(Destructor)`, `WF(Step)`: destructors, `parse()`, `normalizeBuffer` and the data
functions are plain synchronous code that runs in its caller's thread with nothing to wait for, so
while one of their steps is possible, one is taken. Nothing is assumed of
clients: no call is ever assumed to be made.

## 4. The theorems

For every value of the constants, from the assumptions stated beside them
(`Null` is no address and no payload; buffers are sequences of tokens or characters;
behind a literal of a data list there is a separator;
the nodes of a tree that is exported are numbered from 1, children have larger numbers
than their parents; a header that is written has values of the kinds the module names, which
are all that `writeValue` tells apart; a byte has an even number of values, and a float holds every integer
of `Precision` digits; sizes and bounds are natural numbers):

| Theorem | States | Argument |
|---|---|---|
| `DDLNodeProofs!NodeRegistry` | `Spec => [](TypeOK /\ RegistryExact)`, for all clients; `NodeTypeOK` is its first half | The two together are inductive: a destructor starts only on a node that is alive and not being destroyed, whose slot therefore holds it; a return takes the node out of both sides. |
| `DDLNodeProofs!NodeLinks` | `OwnerSpec => [](NoDoubleDelete /\ LinksAgree)`; `NodeNoDoubleDelete` is its first half | `LinksAgree` speaks only of states between calls. `LInv` extends it into a running delete: of the list of a node whose destructor runs, only the entries from its loop index on count (`Left`). These name living nodes with that parent, each once; so the child that `DeleteChild` meets is alive, its entry is behind the index when it is entered, and no other list names it. |
| `DDLNodeProofs!NodePayload` | `OwnerSpec => []PayloadOwnedOnce` | `PInv` says the same of the nodes whose destructor has not begun; it needs that the two roles of a node, and two nodes, share nothing. |
| `DDLNodeProofs!NodeImplementsForest` | `OwnerSpec => ImplementsForest`: destructors that run child by child implement a forest whose deletes are one step | The forest consists of what is not doomed, `Doomed` being the least set below the root of the running delete. `PathInv`: the stack of destructors is a path down from that root. So what a destructor enters or frees was doomed before, and the forest does not see it (`DoomedWithout` for the leaf that is freed); the abstract delete happens when the outermost destructor begins. |
| `DDLParserProofs!ParserTopLive` | `Spec => []TopLive` | `TopLive` is not inductive: a pop may uncover anything. `StackInv` counts: each open structure, and the root, has an entry on top of `m_stack` (`Owed`), and these are no older than the context, while what was freed is older. Whatever earlier parses left lies below them. `ParserStackInv` states it. |
| `DDLParserProofs!ParserForest` | `Spec => []Forest` | Only `create` changes links, and the new node is larger than all in the child lists (`HeapTyped`). |
| `DDLParserProofs!ParserDataSetOnce` | `Spec => DataSetOnce` | Only the two setters change content, and they act on the top of `m_stack`. While structures have headers, that is the node of the innermost open structure, and it has no content until its data are closed: an invariant over the program counter, on top of `StackInv`. |
| `DDLParserProofs!ParserTypeOK` | `Spec => []TypeOK` | The bound on the cursor is the point: whatever a body begins with, an identifier, a type, a name and a property leave the cursor in the text or directly behind it, and so does every step (`CursorInv`), but for the one behind an array list, which may put it one place further, where only the closing brace is still looked for, and the steps after which nothing is known. |
| `DDLParserProofs!ParserLostOnlyKnown` | `Spec => LostOnlyKnown` | `Lost` speaks of the tree of the context, a recursive function. `SubtreeIsTree` and `TreeFamily` say what it is: the root, and every node whose parent is in it, by `Forest` and because parents are older than children. So a new node is in the tree exactly when its parent is (`HeaderLost`), which it is while every structure had a header (`ContextFamily`); an overwritten context is lost with its tree (`ParseLost`); and what `clear` and `setBuffer` destroy is that tree, all of it, and no other node (`SetBufferLost`). |
| `DDLCommentsProofs!CommentsOnlyRemoved` | `Spec => []OnlyRemoves` | Inductive with the types: the cursor is ahead of all that was kept. |
| `DDLCommentsProofs!CommentsAreStripped` | `Spec => []CommentsStripped` | The lexer is run beside the cursor: at each turn its state after the characters read so far says whether the cursor is in a comment, and what both have kept is the same. |
| `OpenDDLExportProofs!ExportTypeOK`, `ExportNoFileLeftOpen`, `ExportFileOnlyGrows` | `Spec => []TypeOK`, `Spec => []NoFileLeftOpen`, `Spec => FileOnlyGrows` | The strengthening says which files can be open: before the first export none, up to the second only the one in hand; and that an exporter that is gone has none in hand. |
| `OpenDDLExportProofs!ExportWritesInOrder` | `Spec => []WritesInOrder` | Each activation of `handleNode` still has to write the rest of its node's children and what is below them (`Rest`); `Left` adds these up along the activations, and what was visited followed by what is left is the whole order (`Walking`). Entering a child moves its part to the new activation, returning removes an empty one. That there is such an order at all, and that it is the one `Written` computes, is proved by induction on the numbers of the nodes (`WrittenIs`). |
| `OpenDDLExportProofs!ValueLiteralKept` | `ValueSpec => []LiteralKept` of `DDLValue`, for bytes of any even number of values, floats of any precision, and every declared type and form of literal | A cast changes a number by a multiple of what the type can tell apart (`Congruent`), and not at all if it fits (`CastIs`); the same of the hexadecimal accumulator and of the digit in front of an exponent (`HexaKept`, `CastLow`). A float is near the number it was made of, and is that number if it can be (`RoundedIs`). One lemma for each literal parser says which texts make no value and what is in the others (`IntegerKept`, `FloatingKept`, `StringKept`); `ParsedKept` follows the dispatch, and `VInv` keeps it until the value is written. |
| `OpenDDLExportProofs!ValueReadsBack` | `ValueSpec => WrittenReadsBack` | For integers, strings and real numbers in turn (`IntegerBack`, `StringBack`, `RealBack`): a number of no more digits than `Precision` passes the getter, the stream and the cast unchanged (`GetRealIs`, `StreamedIs`, `ShortWhole`), whichever form the stream chose; in a property one to four places make sure that it is the form with a point. |
| `OpenDDLExportProofs!HeaderOwnedOnce` | `HeaderSpec => []OwnedOnce` of `DDLHeader`, for headers of every length and texts with any number of names | The live objects are trees (`Tree`), and what the parser, the node and the copy point to are roots that nobody owns (`Unowned`), all different (`RootsOK`): the key while its property is read, the names beside it, then the property that took them. An allocation takes roots and gives one (`Allocates`); a delete reaches the tree below its root and no other (`Deletes`). `CursorOK` is needed beside it, because a character is read behind the cursor. |
| `OpenDDLExportProofs!HeaderReadsBack`, `HeaderLosesNoOther` | `HeaderSpec => []ReadsBack`, `HeaderSpec => []LosesNoOther` of `DDLHeader`, for headers of any number of properties of all kinds `writeValue` tells apart | What is written is known place by place up to the key of a second property (`WrittenIsText`), and so is what `lookForNextToken`, `parseIdentifier` and `parseName` find there (`Marks`, `ClauseMarks`). `BackInv` says for each thing that is read next where the cursor is (`Cursors`), what the node has (`NodeRead`) and which objects there are (`ObjectsRead`); a step each takes it to the next. The property a node ends up with holds a value and no reference, so there is nothing a client could copy. |
| `OpenDDLExportProofs!HeaderSummaryAgrees` | `HeaderSpec => []SummaryAgrees` of `DDLHeader`, for every text of the tokens it shares with `DDLTokens` whose header does not read past the end | Without commas `lookForNextToken` stays where it is, and the two modules' `Identifier` and `Name` come to the same (`CommonIdentifier`, `CommonName`). `SumInv` says of each thing that is read next that the cursor is where `DDLTokens` has it (`InPlace`), and what a header that was read comes to (`Ended`). With it, the one step in which `DDLParser` takes a header is proved to summarise the calls. |
| `DDLDataProofs!DataValuesOwned` | `Spec => []ValuesOwned` | `DInv` holds the chain of each list, and of the one under way, as a sequence of places (`Chains`): each is increasing, each is behind the one before, and together they are all that was made. A new value is behind the last one and is linked by it (`ChainGrows`), and what `Chain` computes by recursion is this sequence (`ChainIs`). |
| `DDLDataProofs!DataNamesOwned` | `Spec => []NamesOwned` | Where no blank is in front of a comma, one turn of `parseDataList` reads all names of a list, so no `Reference` replaces another (`Named`). |
| `DDLDataProofs!DataListsMatch` | `Spec => []ListsMatch` | `Finds` says at each place of the code where the cursor is among the brackets of the text: between two inner lists, or in one, of which the literals in front of it were found; and the lists returned so far are those wanted of the text in front of it (`Wants`). |
| `DDLDataProofs!DataAccessorsMissOne` | `Spec => []AccessorsMissOne`: what the documented loop over an iterator, and `DataArrayList::size()`, let a client see is all values but the first, and all lists but one of several | An iterator is at a place of the chain, and has yielded the values from the second up to that place (`Iterating`). |
| `TPoolAllocatorProofs!PoolItemsDistinct`, `PoolFreeListIsRest`, `PoolFaultWithoutPool` | `Spec => []ItemsDistinct`, ... | The invariant orders the pools: they are numbered in chain order, those behind the one in use are unused, and the items that are out are those below each pool's index, which is at most its size unless it has no items. A pool from the free list is therefore empty, and an item is new when it is handed out. `PoolTypeOK` states the types alone. |
| `TPoolAllocatorProofs!PoolChainComplete` | `Spec => []ChainComplete` | The walk from `m_first` is followed by induction along the numbers of the pools, which are in chain order. |
| `DDLRegistryProofs!RegistryNoFault`, `RegistryKeepsLiving`, `RegistryClearsOwn` | `Spec => []NoFaultUnraced`, `Spec => []LivingRegistered`, `Spec => ClearsOwnOnly` | The three properties speak of a thread's next access only. `Calm` says, up to a race, what every thread relies on between two of its accesses: outside a growth the three pointers are of one block that is not freed; the slot at `finish` is its own for a thread that pushes without growing; a growth's new block holds all living nodes and the new one behind them; an index is below `finish` once its node lives. A step that is no race finds no other thread in a growth (`Alone`), so what the others rely on is either not touched or is another slot. |
| `DDLRegistryProofs!RegistryExactUnmixed` | `Spec => []ExactUnmixed` | `Exact` adds to `Calm`, while creates do not overlap: one thread creates at a time (`OneCreates`), so the index it read is still the size when it stores; nodes in the registry are at the index they remember (`InUse`), a new or leaving one is nowhere but there (`Fresh`, `Leaving`), and a growth has copied just these (`Grown`). |

The lemmas are about sequences (push, pop, erase of a first match, flattening), about one
action each, and about the conversion of `LInv` to its simple form while no destructor
runs (`ReadyLinks`). The library's induction theorems take an operator as a
parameter, which no prover here can instantiate. `Induction` has them for sets: a set of
numbers that has 0, and with each number the next, has them all; and a function that is
given by its first value and a step exists and is unique. Each use names the set of
the numbers for which the claim holds. For the same reason `Normalized` of `DDLTokens` is a
recursive function and no `SelectSeq`, of which the prover knows nothing; and `DDLValue`
counts the values of a byte, not its bits, as the prover knows nothing of powers.

Only model-checked:

* all liveness properties, which are beyond this prover: `DeleteCompletes`, the
  `Terminates` of `DDLParser`, `DDLData` and `DDLComments`;
* the refinement of `DDLDocument`, which compares a whole tree, built step by step, with
  a recursive definition over the text: the induction over the text is not worked out.

## 5. What the checks found

Three statements of the headers that the code does not keep are recorded as
findings, each with the run that refutes it: `attachParent` and the older parent,
`exportContext`'s result, and `hasProperty`, which finds a property under every
beginning of its key.

Other deviations are pinned by properties that say what the code does instead:

* `Value::Iterator` with the loop of `Value.h` (49-57) never yields the first value, and
  `DataArrayList::size()` of several lists is one too small, where `OpenDDLCommon.h` (222) says
  "Gets the length of the array". The theorem `DataAccessorsMissOne` states it; no run
  asserts it. A test of the repository expects size 1 of two lists.
* the exporter leaves out the first child of every node: `WritesInOrder` compares with
  the order without them;
* `getDouble` returns the double through a `float`, a stream writes six digits (1234567 is
  written as 1.23457e+06), integers are written through `int`, and strings as they are, a quotation
  mark included: `WrittenReadsBack` names the values that survive.
* `LiteralKept` says what becomes of every literal: in a list of integers a hexadecimal one is 0
  and one with an exponent its first digit, because `atoll` stops there, and a negative one makes no
  value; elsewhere a hexadecimal one is right up to 31 bits; in a property one
  with an exponent, and a hexadecimal one, is lost.
* a header with two properties, which the exporter writes, is refused by the parser: the
  loop looks for a comma that `lookForNextToken` has already skipped; so is one whose property is
  a bool, a real with an exponent or a string with a quotation mark in it (`ReadsBack`). A value
  directly behind the equals sign loses its first character.
* an allocator that was cleared cannot be grown again, and `dumpAllocations` cannot be called
  while there is no pool (`FaultWithoutPool`).
* after `reserve(0)` or `resize(0)` the allocator hands out items behind a pool of no items, and goes
  on without end, because `alloc` tests for the index being the size before it grows and not
  after it (`ItemsDistinct` excepts these pools from its bound).

Some things were met on the way that no document denies, and are modelled as they are:

* `clear()` keeps `m_stack`. `TopLive` shows that it does not matter as long as
  structures have headers. A block without one pops a node of another structure.
* A second `parse()` overwrites `m_context`: the first tree leaks. After a failed
  parse the context keeps what was built, although a comment in `OpenDDLParser.h`
  says that it is only available after a successful one.
* A text that is cut off (`A {`) is accepted; a structure with no content
  (`A {}`) is refused; a buffer of comments only gives an empty tree.
* The key of a property without a readable value, the properties of a refused header,
  and a name that no node took, are never deleted (`LosesNoOther` says: nothing else is).
* `/*/` is a whole comment and `//c/` none; `reserve()` allocates its array twice.
* Two threads that create nodes at once can lose a node from the registry, use
  storage that is freed, or give two nodes one index; the library says nothing about threads.
* Negative integers are dropped from integer lists; hexadecimal digits are
  collected in an `int`; booleans in lists make no value.
* Names in a list that are separated by blanks lose all but the last group.

## 6. What is not modelled

* The characters of a token: `DDLComments` works on characters and the other modules on
  tokens; `normalizeBuffer` joins the words at a line's end, and comments inside
  strings are taken for comments, as in the code.
* A client of `setRef` that calls it twice on one `Value` (it releases
  a `Reference` as an array of bytes).
* What is read behind the buffer: `DDLComments` takes any character there; `DDLParser` and
  `DDLHeader` record that it happens, and with which cursor (`undefined`, `wild`).
* Which digits a real number has, numbers between -1 and 0, doubles of more digits than a double
  keeps, and infinities (`DDLValue`).
* A composition of header and values in a file: `writeNode` replaces the statement it composed,
  so no exported file has either, and nothing exported can be loaded again. `ReadsBack` and `WrittenReadsBack` are
  about the texts that `writeNodeHeader`, `writeProperties` and `writeValue` compose.
* The log callback, which is told of errors and changes nothing; `dump`; the getters of nodes;
  `IOStreamBase::read` and `size`, `DDLNode::releaseNodes` and
  `ValueAllocator::releasePrimData`, which nothing calls.
* The text of types and of array lists that the exporter composes and then replaces.
* `TPoolAllocator( numItems )`, which does not compile, and the arrays inside pools.
* Demo, fuzz target, tests and vendored googletest: not part of the library.

## 7. Plan

Done: every component of the library has a module, its properties and, where the prover
reaches, theorems. What would come next, in this order:

1. The refinement of `DDLDocument` by `DDLParser` as a theorem: the tree that was built, against
   the one read off the brackets, by induction over the text.
2. A composition of `DDLHeader`, `DDLData` and `OpenDDLExport` for a whole statement,
   should `writeNode` come to keep what it composes.

New questions join the existing runs where the instance is the same; a run is added only
for a module that has none.
