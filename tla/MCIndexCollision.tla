--------------------------- MODULE MCIndexCollision ---------------------------
(* IndexManager with the shard files that encodeShardKey gives to two      *)
(* paths: "/a/a" and "/a_2fa".                                             *)
EXTENDS IndexManager, TLC

Keys == INSTANCE ShardKey WITH
    PlainChars <- {"a", "_", "2", "f"},
    HexOf <- ("/" :> <<"2", "f">>)

PathName == << <<"/", "a", "/", "a">>, <<"/", "a", "_", "2", "f", "a">> >>

MCShardFileOf == [p \in Paths |-> Keys!encodeShardKey(PathName[p])]

(* docs/reference/lsp/index-schema.md: "`dsdld` persists per-file index    *)
(* shards for warm-start workspace indexing".  Here the files of a         *)
(* committed snapshot have no shard each: one overwrites the other.        *)
PersistsPerFileShards == SnapshotIsDurable

=============================================================================
