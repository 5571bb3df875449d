----------------------------- MODULE MCDBRowFields -----------------------------
EXTENDS DBRowFields, TLC

Sym == Permutations(Clients)

Table(k, f, g) == [id |-> k, f |-> f, g |-> g]

\* Every type is in one of them.
SomeTables == {Table("int64", "int32", "message"), Table("string", "double", "bytes"),
               Table("uint32", "enum", "repeated"), Table("int64", "uint64", "bool"),
               Table("int32", "float", "string"), Table("uint64", "listmessage", "message")}
=============================================================================
