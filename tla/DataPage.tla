------------------------------ MODULE DataPage ------------------------------
(***************************************************************************)
(* column_chunk_writer::flush_page (column_chunk_writer.hh): how the page  *)
(* of an optional column is put together.  The buffer of the page is sized *)
(* by current_page_max_size(); the levels are appended to it behind their  *)
(* length; the value encoder then writes behind the levels, and what is    *)
(* past the end of the buffer at that moment is filled with zeros when the *)
(* page gets its final size.                                               *)
(***************************************************************************)
EXTENDS RleBuilder

CONSTANTS
    MaxLevel,     \* _def_level: values with this level are not null
    ItemBytes,    \* bytes of a value
    PrefixBytes,  \* sizeof(uint32_t): the length before the levels
    Slack         \* max_encoded_size() - bytes flushed, of the value encoder:
                  \* none for plain_encoder, the MinBufferSize of the bit
                  \* width of the indices at least for dict_encoder

ASSUME PageAssumption ==
    /\ MaxLevel \in Values /\ ItemBytes \in Nat
    /\ PrefixBytes \in Nat /\ Slack \in Nat

VARIABLES
    items,  \* what the value encoder of the page will write
    page    \* the page flushed by the last flush_page, until the next put():
            \* its bytes, where its values begin, and what the value encoder
            \* was to write there

pageVars == <<enc, offset, size, done, viewed, input, items, page>>

NoPage == [bytes |-> <<>>, data |-> 0, held |-> <<>>]

PageInit ==
    /\ Init
    /\ items = <<>>
    /\ page = NoPage

-----------------------------------------------------------------------------
(* put(): values are told apart by their number in the page, from 1.       *)
PutItem(level) ==
    /\ Put(level)
    /\ items' = IF level = MaxLevel
                THEN items \o Copies(Len(items) + 1, ItemBytes)
                ELSE items
    /\ page' = NoPage

(* Fault: the buffer of the levels is not counted.                         *)
CurrentPageMaxSizeNoLevels == Len(items) + Slack

CurrentPageMaxSize == size + Len(items) + Slack

(* bytes::resize: what is cut off is lost, what is added is zero.          *)
Resize(bytes, n) ==
    [i \in 1..n |-> IF i <= Len(bytes) THEN bytes[i] ELSE 0]

(* value_encoder::flush(page.data() + at): of what is written behind the   *)
(* size of the string nothing is left after the next resize.               *)
WriteAt(bytes, at, s) ==
    [i \in 1..Len(bytes) |->
        IF at < i /\ i <= at + Len(s) THEN s[i - at] ELSE bytes[i]]

LevelBytes == PrefixBytes + offset + Flush(enc).bytes

(* The bytes of the levels and of their length stand as zeros.             *)
Page ==
    LET levels  == Copies(0, LevelBytes)
        sized   == Resize(levels, CurrentPageMaxSize)
        written == WriteAt(sized, LevelBytes, items)
    IN  Resize(written, LevelBytes + Len(items))

(* flush_page() views the levels before it appends them, once.             *)
ViewLevels ==
    /\ View
    /\ UNCHANGED <<items, page>>

FlushPage ==
    /\ page' = [bytes |-> Page, data |-> LevelBytes, held |-> items]
    /\ Clear
    /\ items' = <<>>

PageNext ==
    \/ \E level \in Values : PutItem(level)
    \/ ViewLevels
    \/ FlushPage

PageSpec == PageInit /\ [][PageNext]_pageVars

-----------------------------------------------------------------------------
(* A page is as long as its levels and its values.                         *)
PageTypeOK ==
    /\ TypeOK
    /\ items \in Seq(Nat)
    /\ page.held \in Seq(Nat)
    /\ page.bytes \in Seq(Nat)
    /\ page.data \in Nat
    /\ Len(page.bytes) = page.data + Len(page.held)

(* What is behind the levels of a page is what the value encoder wrote.    *)
ValuesOf(p) == [i \in 1..(Len(p.bytes) - p.data) |-> p.bytes[p.data + i]]

PageHoldsValues == ValuesOf(page) = page.held
=============================================================================
