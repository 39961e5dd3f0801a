-------------------------- MODULE TokenRepository --------------------------
(***************************************************************************)
(* The token whitelist: the TokenWhiteList collection and the queries of   *)
(* TokenRepository.  Every operator with primed variables is one database  *)
(* call, which MongoDB executes atomically on one document.                *)
(*                                                                         *)
(* Documents are never updated by the program, only inserted and deleted.  *)
(* row[id] keeps the document inserted under id after its deletion, so     *)
(* that properties can speak of deleted rows; whitelist is what is stored. *)
(***************************************************************************)
EXTENDS Jwt

CONSTANTS
    RowIds,   \* the ObjectIds the database can generate
    Null      \* SQL-like null, undefined, "no row"

VARIABLES
    row,        \* row[id]: the document inserted under id, Null before that
    whitelist   \* the ids of the documents now in the collection

db == <<row, whitelist>>

Rows == [userId         : Users,
         accessToken    : Tokens \cup {Null},
         refreshToken   : Tokens \cup {Null},
         refreshTokenId : RowIds \cup {Null},
         expiredAt      : Int]

ASSUME NullAssumption ==
    Null \notin Rows \cup Tokens \cup RowIds \cup Users

Created == {id \in RowIds : row[id] # Null}
Unused  == {id \in RowIds : row[id] = Null}

RepositoryTypeOK ==
    /\ row \in [RowIds -> Rows \cup {Null}]
    /\ whitelist \in SUBSET Created

RepositoryInit ==
    /\ row = [id \in RowIds |-> Null]
    /\ whitelist = {}

-----------------------------------------------------------------------------
(* Queries: the documents findFirst may return. *)

GetAccessTokenFromWhitelist(tok) ==
    {id \in whitelist : row[id].accessToken = tok}

(* Mutant: the token reaches prisma as undefined, which filters nothing. *)
GetAnyTokenOfUser(u, tok) == {id \in whitelist : row[id].userId = u}

GetUserAccessTokenFromWhitelist(u, tok) ==
    {id \in whitelist : row[id].userId = u /\ row[id].accessToken = tok}

GetRefreshTokenFromWhitelist(tok) ==
    {id \in whitelist : row[id].refreshToken = tok}

(* Commands. *)

(* @default(auto()): an ObjectId that was never generated before. *)
NewId == CHOOSE id \in RowIds : row[id] = Null

Insert(doc) ==
    /\ Unused # {}
    /\ row' = [row EXCEPT ![NewId] = doc]
    /\ whitelist' = whitelist \cup {NewId}

SaveAccessTokenToWhitelist(u, refreshId, tok, expiry) ==
    Insert([userId |-> u, accessToken |-> tok, refreshToken |-> Null,
            refreshTokenId |-> refreshId, expiredAt |-> expiry])

SaveRefreshTokenToWhitelist(u, tok, expiry) ==
    Insert([userId |-> u, accessToken |-> Null, refreshToken |-> tok,
            refreshTokenId |-> Null, expiredAt |-> expiry])

(* deleteAccessTokenFromWhitelist and deleteRefreshTokenFromWhitelist are  *)
(* the same call, prisma delete({ where: { id } }): it removes the         *)
(* document, and fails with P2025 when there is none (Missing).            *)
DeleteFromWhitelist(id) ==
    /\ id \in whitelist
    /\ whitelist' = whitelist \ {id}
    /\ UNCHANGED row

Missing(id) == id \notin whitelist /\ UNCHANGED db

(* Mutant: a partial index that covers refresh rows only. *)
TtlExpiredRefreshOnly(id, t) ==
    id \in whitelist /\ row[id].refreshToken # Null /\ row[id].expiredAt <= t

(* The TTL index of the migration ({ expiredAt: 1 }, expireAfterSeconds 0): *)
(* the TTL monitor of mongod removes a document some time after expiredAt.  *)
TtlExpired(id, t) == id \in whitelist /\ row[id].expiredAt <= t
=============================================================================
