---------------------------- MODULE MCRedisStore ----------------------------
EXTENDS RedisStore

CONSTANTS api, web

(* Every entry is tagged `api'; the odd ones `web' too.                    *)
SharedTags == [e \in Entries |-> IF e % 2 = 1 THEN {api, web} ELSE {api}]
=============================================================================
