---------------------------- MODULE MCTargetMap ----------------------------
(***************************************************************************)
(* Instances of TargetMap.  The host has a scalar x, a struct whose field  *)
(* f and pointer p start off the alignment, the array p points to, a       *)
(* scalar y and an array z.                                                *)
(***************************************************************************)
EXTENDS TargetMap

x == 1
f == 3
p == 4
array == 6
y == 8
z == 9
Memory == [a \in 1 .. 9 |-> IF a = p THEN array ELSE 10 * a]

Item(begin, type) ==
  [base |-> begin, begin |-> begin, size |-> 1, type |-> type, parent |-> 0]
ToFrom == {"target_param", "to", "from"}
Struct == << [base |-> f, begin |-> f, size |-> 2, type |-> {"target_param"}, parent |-> 0],
             [base |-> f, begin |-> f, size |-> 1, type |-> {"to", "from"}, parent |-> 1],
             [base |-> p, begin |-> array, size |-> 2, type |-> {"to", "from", "ptr_and_obj"},
              parent |-> 1] >>
Whole(type) == <<[base |-> f, begin |-> f, size |-> 2, type |-> type, parent |-> 0]>>

Touch(k, offset) == [arg |-> k, offset |-> offset, deref |-> FALSE]
Behind(k, offset) == [arg |-> k, offset |-> offset, deref |-> TRUE]
Data(call, args) == [call |-> call, args |-> args, body |-> <<>>]
Region(args, body) == [call |-> "target", args |-> args, body |-> body]
OnX == Region(<<Item(x, ToFrom)>>, <<Touch(1, 0)>>)
OnY == Region(<<Item(y, ToFrom), Item(z, {"target_param", "private", "to"}),
                Item(x, {"target_param", "literal"})>>, <<Touch(1, 0), Touch(2, 0)>>)
OnStruct == Region(Struct, <<Touch(1, 0), Behind(1, 1)>>)

\* The pointer alone, which the compiler maps as a section without length.
Pointed == [begin |-> array, base |-> array, size |-> 0, parent |-> 0,
            type |-> {"target_param", "to", "from", "implicit"}]
OnArray == Region(<<Pointed>>, <<Touch(1, 1)>>)

Case(calls, fail, calm) ==
  [calls |-> calls, memory |-> Memory, failures |-> fail, calm |-> calm]

\* Three threads at the same data.
Enter_X == Data("data_begin", <<Item(x, {"to"})>>)
Exit_X == Data("data_end", <<Item(x, {"from"})>>)
SharedScalar == Case(<<<<OnX, OnX>>, <<Enter_X, OnX, Exit_X>>, <<OnX>>>>, 0, FALSE)
SharedStruct == Case(<<<<OnStruct>>, <<OnStruct, OnStruct>>, <<>>>>, 0, FALSE)
\* A region that finds the struct mapped, and updates between, besides another.
Nested == Case(<<<<Data("data_begin", Struct), OnStruct,
                   Data("data_update", Whole({"from"})), Data("data_update", Whole({"to"})),
                   OnArray, Data("data_end", Struct)>>, <<OnY>>, <<>>>>, 0, TRUE)
\* Data entered and deleted, besides data associated with memory of the program.
Yours == <<Item(y, {"to"})>>
Associated ==
  Case(<<<<Enter_X, OnX, Data("data_end", <<Item(x, {"from", "delete"})>>)>>,
         <<Data("alloc", Yours), Data("associate", Yours), Data("data_update", Yours), OnY,
           Data("data_update", <<Item(y, {"from"})>>), Data("disassociate", Yours),
           Data("free", Yours)>>, <<>>>>, 0, TRUE)
\* Transfers that fail.
OnXZ == Region(<<Item(x, ToFrom), Item(z, {"target_param", "private", "to"})>>,
               <<Touch(1, 0), Touch(2, 0)>>)
Failing == Case(<<<<OnXZ>>, <<OnX>>, <<>>>>, 3, FALSE)
FailingStruct == Case(<<<<OnStruct, Data("data_begin", Struct),
                          Data("data_update", Whole({"from", "to"})),
                          Data("data_end", Struct)>>, <<OnY>>, <<>>>>, 3, TRUE)

AllCases == {SharedScalar, SharedStruct, Nested, Associated, Failing, FailingStruct}
FailingCases == {Failing}
=============================================================================
