------------------------------ MODULE HeapPage ------------------------------
(***************************************************************************)
(* A heap page (heap_page_types::HeapPage, storage_manager/headers/        *)
(* types.hpp) and what heap_write and heap_scan::scan do to its bytes.     *)
(* The page has a header, MaxSlots slots and a payload that rows fill from *)
(* its end.  heap_write finds its slot anew through slot_count at each of  *)
(* its steps, so each step is an operator on the page it finds.            *)
(*                                                                         *)
(* A cell is a byte.  A value fills its cells with its code.  0 is the     *)
(* zero byte, which ends a string: the empty string is nothing else, other *)
(* strings leave their column's last cell to it, and those that are as     *)
(* long as the column leave it none.  Cells that are no value are Torn.    *)
(***************************************************************************)
EXTENDS Integers, Sequences, SequencesExt

CONSTANTS
    MaxSlots,           \* MAX_SLOTS: 10 in the code
    HeapPayloadSize,    \* HEAP_PAYLOAD_SIZE: 4015
    IntSize,            \* sizeof(int) and sizeof(float): 4
    StringMaxSize,      \* STRING_MAX_SIZE: 500
    LongStrings         \* the codes of strings of just that many bytes

\* Every row is a multiple of IntSize long, the payload is not: free_size stays
\* above zero.
ASSUME HeapPageAssumption ==
    /\ MaxSlots \in Nat \ {0}
    /\ IntSize \in Nat \ {0}
    /\ StringMaxSize \in Nat
    /\ IntSize < StringMaxSize
    /\ LongStrings \subseteq Nat \ {0}
    /\ HeapPayloadSize \in Nat
    /\ StringMaxSize % IntSize = 0
    /\ HeapPayloadSize % IntSize # 0

Cells == 0 .. HeapPayloadSize - 1
Torn  == -1

Width(column_type) == IF column_type = "STRING" THEN StringMaxSize ELSE IntSize

RowSize(column_types) ==
    LET size[n \in 0 .. Len(column_types)] == IF n = 0 THEN 0 ELSE size[n - 1] + Width(column_types[n])
    IN  size[Len(column_types)]

Slots == [slot_size : Nat, slot_offset : 0 .. HeapPayloadSize]
Pages == [is_initialized : BOOLEAN, free_size : 0 .. HeapPayloadSize, slot_count : 0 .. MaxSlots,
          slots : [1 .. MaxSlots -> Slots], data : [Cells -> Nat]]

\* A page behind the end of the file reads as zeroes.
ZeroSlot == [slot_size |-> 0, slot_offset |-> 0]
ZeroPage == [is_initialized |-> FALSE, free_size |-> 0, slot_count |-> 0,
             slots |-> [s \in 1 .. MaxSlots |-> ZeroSlot],
             data |-> [c \in Cells |-> 0]]

-----------------------------------------------------------------------------
(* heap_write                                                              *)

\* mutant: the page does not remember that it is initialized
initialize_again(page) == [page EXCEPT !.free_size = HeapPayloadSize, !.slot_count = 0]
initialize(page) ==
    IF page.is_initialized THEN page
    ELSE [page EXCEPT !.is_initialized = TRUE, !.free_size = HeapPayloadSize, !.slot_count = 0]

SlotsFull(page) == initialize(page).slot_count >= MaxSlots

SlotCounted(page) ==
    LET p == initialize(page) IN [p EXCEPT !.slot_count = @ + 1]

\* mutant: any free byte is enough, as it is for get_last_pid
Fits_anything(page, row_size) == page.free_size > 0
Fits(page, row_size) == row_size <= page.free_size

\* slot_size is set before the space is known to suffice, free_size only then.
Sized(page, row_size) == [page EXCEPT !.slots[page.slot_count].slot_size = row_size]
SpaceTaken(page, row_size) == [Sized(page, row_size) EXCEPT !.free_size = @ - row_size]

Placed(page) == [page EXCEPT !.slots[page.slot_count].slot_offset = page.free_size]

CurrentSlot(page) == page.slots[page.slot_count]

\* The bytes of a value before the NUL that ends a string.
ValueSize(column_type, val) ==
    CASE column_type # "STRING" -> IntSize
      [] column_type = "STRING" /\ val = 0 -> 0
      [] column_type = "STRING" /\ val \in LongStrings -> StringMaxSize
      [] OTHER -> StringMaxSize - 1

\* What is copied for a value: strings are filled up with zeroes.
ValueBytes(column_type, val) ==
    [k \in 1 .. Width(column_type) |-> IF k <= ValueSize(column_type, val) THEN val ELSE 0]

\* The bytes of a row: each value is as wide as the type it has, which is its
\* column's unless the statement gave the column no value.
RowBytes(row) == FlattenSeq([i \in DOMAIN row |-> ValueBytes(row[i].type, row[i].val)])

\* (What runs past the payload lands behind the page and is left out.)
DataFilled(page, row) ==
    LET start == CurrentSlot(page).slot_offset
        bytes == RowBytes(row)
    IN  [page EXCEPT !.data =
            [c \in Cells |-> IF c \in start .. start + Len(bytes) - 1
                             THEN bytes[c - start + 1] ELSE @[c]]]

-----------------------------------------------------------------------------
(* heap_scan::scan                                                         *)

ColumnOffset(column_types, i) == RowSize(SubSeq(column_types, 1, i - 1))

\* The value of a column, read at the fixed offset its table gives it; a string up to the
\* next NUL, wherever that is.
ReadValue(page, slot, column_types, i) ==
    LET start == slot.slot_offset + ColumnOffset(column_types, i)
        val == page.data[start]
        end == start + ValueSize(column_types[i], val)
    IN  IF /\ start \in Cells
           /\ \A c \in start .. end - 1 : c \in Cells /\ page.data[c] = val
           /\ column_types[i] = "STRING" => end \in Cells /\ page.data[end] = 0
        THEN val ELSE Torn

ReadRow(page, slot, column_types) ==
    [i \in DOMAIN column_types |-> ReadValue(page, slot, column_types, i)]

-----------------------------------------------------------------------------
(* For the properties: what a page should hold.                            *)

\* The bytes at a slot are those of these values.
HoldsRow(page, slot, column_types, vals) ==
    \A i \in DOMAIN column_types : \A k \in 1 .. Width(column_types[i]) :
        page.data[slot.slot_offset + ColumnOffset(column_types, i) + k - 1]
            = ValueBytes(column_types[i], vals[i])[k]

\* The value's end can be told from its bytes.
Delimited(column_type, val) == column_type = "STRING" => val \notin LongStrings
=============================================================================
