---------------------------- MODULE HttpPipeline ----------------------------
(***************************************************************************)
(* One HTTP request through the application of main.ts: body parser, the   *)
(* two guards, pipes, handler, and then either the interceptors, which     *)
(* turn what the handler returned into a response, or the exception filter *)
(* that answers what was thrown on the way.                                *)
(*                                                                         *)
(* What guards and handlers decide is the subject of the other modules;    *)
(* here every outcome they have is possible, and the question is what the  *)
(* client gets to see of it.                                               *)
(***************************************************************************)
EXTENDS Naturals, Sequences

CONSTANTS
    PrismaCodes,    \* codes of the requests Prisma refuses
    NaN,            \* what parseInt makes of a text without a number
    Null

Mapped == {"P2000", "P2002", "P2003", "P2025"}

ASSUME PrismaCodesAssumption == Mapped \subseteq PrismaCodes
ASSUME NumbersAssumption == NaN \notin Nat /\ Null \notin Nat /\ NaN # Null

-----------------------------------------------------------------------------
(* The routes of the controllers, and one that no controller has.          *)

Routes == {"signUp", "signIn", "refresh", "logout", "findAll", "me",
           "updateUser", "health", "unknown"}

SkipAuth   == {"signUp", "signIn", "refresh", "health"}
UseAbility == {"logout", "findAll", "me", "updateUser"}
Validated  == {"signUp", "signIn", "refresh"}
Filtered   == {"findAll"}
Serialized == {"signUp", "findAll", "me", "updateUser"}

HttpCode(r) ==
    CASE r \in {"signUp", "signIn", "refresh"}         -> 201
      [] r = "logout"                                  -> 204
      [] r \in {"findAll", "me", "updateUser", "health"} -> 200

-----------------------------------------------------------------------------
(* An exception: its class, the status of getStatus() (0: it has none), and *)
(* response.message: split(':') gives so many parts (0: no message), the   *)
(* first of which parseInt reads as lead.                                  *)

Classes == {"Unauthorized", "Forbidden", "NotFound", "BadRequest", "Validation",
            "Conflict", "Unavailable", "Throttler", "Prisma", "Error"}

Messages == [parts : 0..3, lead : Nat \cup {NaN}]

Silent         == [parts |-> 0, lead |-> NaN]
Worded         == [parts |-> 1, lead |-> NaN]
Coded(code)    == [parts |-> 2, lead |-> code]
Garbled(parts) == [parts |-> parts, lead |-> NaN]

Statuses == {0, 200, 201, 204, 400, 401, 403, 404, 409, 422, 429, 500, 503}

Exceptions == [class : Classes, status : Statuses, message : Messages,
               code : PrismaCodes \cup {Null}]

Http(class, status, message) ==
    [class |-> class, status |-> status, message |-> message, code |-> Null]

(* validationExceptionFactory: the errors themselves are its details.      *)
Invalid == Http("Validation", 400, Worded)

PlainError == Http("Error", 0, Silent)

PrismaErrors ==
    {[class |-> "Prisma", status |-> 0, message |-> Silent, code |-> c] : c \in PrismaCodes}

(* ValidationException extends BadRequestException.                        *)
Kinds(class) == IF class = "Validation" THEN {"Validation", "BadRequest"} ELSE {class}

-----------------------------------------------------------------------------
(* What a handler returns: one value or a page of them, which has meta.    *)
(* A row holds a password hash.  An entity is a row that class-transformer *)
(* knows how to strip; sent as it is, it shows all its fields.             *)

Contents == {"row", "entity", "public", "tokens", "report", "nothing"}
Values   == [page : BOOLEAN, content : Contents]

ASSUME NullAssumption == Null \notin Values \cup Exceptions \cup PrismaCodes

One(content)  == [page |-> FALSE, content |-> content]
Page(content) == [page |-> TRUE, content |-> content]

Returned(r) ==
    CASE r = "signUp"                -> {One("row")}
      [] r \in {"signIn", "refresh"} -> {One("tokens")}
      [] r = "logout"                -> {One("nothing")}
      [] r = "findAll"               -> {Page("row")}
      [] r \in {"me", "updateUser"}  -> {One("row"), One("nothing")}
      [] r = "health"                -> {One("report")}

(* Every handler but health's queries the database.                        *)
Thrown(r) ==
    LET own == CASE r = "signUp"  -> {Http("Conflict", 409, Coded(409001))}
                 [] r = "signIn"  -> {Http("NotFound", 404, Coded(404000)),
                                      Http("Unauthorized", 401, Coded(401001))}
                 [] r = "refresh" -> {Http("Unauthorized", 401, Worded)}
                 [] r = "health"  -> {Http("Unavailable", 503, Silent)}
                 [] OTHER         -> {}
    IN  own \cup IF r = "health" THEN {} ELSE PrismaErrors \cup {PlainError}

-----------------------------------------------------------------------------
(* The interceptors, from the inside out.                                  *)

(* Mutant: pages are serialized like values, and nothing of them is left.  *)
SerializePages(v) ==
    CASE v.content = "nothing" -> v
      [] v.page                -> One("nothing")
      [] OTHER                 -> [v EXCEPT !.content = "entity"]

(* SerializeInterceptor *)
Serialize(v) == IF v.content = "nothing" THEN v ELSE [v EXCEPT !.content = "entity"]

(* ClassSerializerInterceptor strips instances, and only those.            *)
ClassSerialize(v) == IF v.content = "entity" THEN [v EXCEPT !.content = "public"] ELSE v

Intercepted(r, v) == IF r \in Serialized THEN ClassSerialize(Serialize(v)) ELSE v

-----------------------------------------------------------------------------
(* A response, and what its body is: an envelope with success true or      *)
(* false, or the framework's own.  code is error.code, data the data.      *)

Responses == [status : Statuses \ {0}, body : {"data", "error", "bare"},
              code : Nat \cup {NaN, Null}, data : Values \cup {Null}]

Success(status, v) == [status |-> status, body |-> "data", code |-> Null, data |-> v]
Failure(status, code) ==
    [status |-> status, body |-> "error", code |-> code, data |-> Null]
Bare(status) == [status |-> status, body |-> "bare", code |-> Null, data |-> Null]

(* TransformInterceptor *)
Transform(r, v) == Success(HttpCode(r), v)

StatusOr(e, default) == IF e.status # 0 THEN e.status ELSE default

(* Mutant: errors without getStatus() are taken for http exceptions.       *)
AllExceptionsUnchecked(e) ==
    Failure(e.status, IF e.message.parts < 2 THEN 500000 ELSE e.message.lead)

AllExceptionsFilter(e) ==
    Failure(StatusOr(e, 500), IF e.message.parts < 2 THEN 500000 ELSE e.message.lead)

(* Whatever the message says, the code is that of the status.              *)
AccessExceptionFilter(e) ==
    Failure(StatusOr(e, IF e.class = "Unauthorized" THEN 401 ELSE 403),
            IF e.class = "Unauthorized" THEN 401000 ELSE 403000)

NotFoundExceptionFilter(e) == Failure(StatusOr(e, 404), 404000)

(* Mutant: any first part of the message is read as the code.              *)
BadRequestAnyLead(e) ==
    Failure(StatusOr(e, 400), IF e.message.parts > 0 THEN e.message.lead ELSE 400000)

BadRequestExceptionFilter(e) ==
    Failure(StatusOr(e, 400), IF e.message.parts = 2 THEN e.message.lead ELSE 400000)

ErrorCodesStatusMapping ==
    [P2000 |-> 400, P2002 |-> 409, P2003 |-> 409, P2025 |-> 404]

(* The framework's filter, which answers what it does not know with 500.   *)
BaseExceptionFilter(e) == Bare(StatusOr(e, 500))

PrismaClientExceptionFilter(e) ==
    IF e.code \in DOMAIN ErrorCodesStatusMapping
    THEN Failure(ErrorCodesStatusMapping[e.code], 400023)
    ELSE BaseExceptionFilter(e)

ValidationExceptionFilter(e) == Failure(422, 422000)
ThrottlerExceptionsFilter(e) == Failure(429, 429000)

(* useGlobalFilters, in its order, and the classes in @Catch().            *)
Filters == {"AllExceptionsFilter", "AccessExceptionFilter", "NotFoundExceptionFilter",
            "BadRequestExceptionFilter", "PrismaClientExceptionFilter",
            "ValidationExceptionFilter", "ThrottlerExceptionsFilter"}

(* Mutant: the filter of validation errors is registered too early.        *)
GlobalFiltersReordered ==
    <<"AllExceptionsFilter", "AccessExceptionFilter", "NotFoundExceptionFilter",
      "ValidationExceptionFilter", "BadRequestExceptionFilter",
      "PrismaClientExceptionFilter", "ThrottlerExceptionsFilter">>

(* Mutant: nothing is registered for the exceptions that no one expects.   *)
GlobalFiltersWithoutAll ==
    <<"AccessExceptionFilter", "NotFoundExceptionFilter",
      "BadRequestExceptionFilter", "PrismaClientExceptionFilter",
      "ValidationExceptionFilter", "ThrottlerExceptionsFilter">>

GlobalFilters ==
    <<"AllExceptionsFilter", "AccessExceptionFilter", "NotFoundExceptionFilter",
      "BadRequestExceptionFilter", "PrismaClientExceptionFilter",
      "ValidationExceptionFilter", "ThrottlerExceptionsFilter">>

Catch(f) ==
    CASE f = "AllExceptionsFilter"         -> Classes
      [] f = "AccessExceptionFilter"       -> {"Unauthorized", "Forbidden"}
      [] f = "NotFoundExceptionFilter"     -> {"NotFound"}
      [] f = "BadRequestExceptionFilter"   -> {"BadRequest"}
      [] f = "PrismaClientExceptionFilter" -> {"Prisma"}
      [] f = "ValidationExceptionFilter"   -> {"Validation"}
      [] f = "ThrottlerExceptionsFilter"   -> {"Throttler"}

Catches(f, class) == Kinds(class) \cap Catch(f) # {}

(* The framework tries the filters from the last one registered to the     *)
(* first, and takes its own when none of them catches the exception.       *)
Trying(class) == {i \in DOMAIN GlobalFilters : Catches(GlobalFilters[i], class)}

FilterFor(class) ==
    IF Trying(class) = {} THEN "BaseExceptionFilter"
    ELSE GlobalFilters[CHOOSE i \in Trying(class) : \A j \in Trying(class) : j =< i]

Answer(f, e) ==
    CASE f = "AllExceptionsFilter"         -> AllExceptionsFilter(e)
      [] f = "AccessExceptionFilter"       -> AccessExceptionFilter(e)
      [] f = "NotFoundExceptionFilter"     -> NotFoundExceptionFilter(e)
      [] f = "BadRequestExceptionFilter"   -> BadRequestExceptionFilter(e)
      [] f = "PrismaClientExceptionFilter" -> PrismaClientExceptionFilter(e)
      [] f = "ValidationExceptionFilter"   -> ValidationExceptionFilter(e)
      [] f = "ThrottlerExceptionsFilter"   -> ThrottlerExceptionsFilter(e)
      [] f = "BaseExceptionFilter"         -> BaseExceptionFilter(e)

-----------------------------------------------------------------------------
VARIABLES
    route,
    pc,
    value,          \* what the handler has returned, or Null
    exception,      \* what was thrown, or Null
    filter,         \* history: the filter that has answered, or Null
    response        \* Null before there is one

vars == <<route, pc, value, exception, filter, response>>

Stages == {"parser", "authGuard", "accessGuard", "pipes", "handler",
           "interceptors", "filter", "done"}

TypeOK ==
    /\ route \in Routes
    /\ pc \in Stages
    /\ value \in Values \cup {Null}
    /\ exception \in Exceptions \cup {Null}
    /\ filter \in Filters \cup {"BaseExceptionFilter", Null}
    /\ response \in Responses \cup {Null}

Init ==
    /\ route \in Routes
    /\ pc = "parser"
    /\ value = Null
    /\ exception = Null
    /\ filter = Null
    /\ response = Null

Proceed(stage) == pc' = stage /\ UNCHANGED <<route, value, exception, filter, response>>

Throw(e) ==
    /\ pc' = "filter"
    /\ exception' = e
    /\ UNCHANGED <<route, value, filter, response>>

(* The SyntaxError of a malformed body becomes a BadRequestException with  *)
(* the parser's message, which may quote a colon of the body.              *)
ParseBody ==
    /\ pc = "parser"
    /\ \/ \E message \in {Worded, Garbled(2), Garbled(3)} :
            Throw(Http("BadRequest", 400, message))
       \/ route = "unknown" /\ \E message \in {Worded, Garbled(2)} :
                                  Throw(Http("NotFound", 404, message))
       \/ route # "unknown" /\ Proceed("authGuard")

(* AuthGuard throws UnauthorizedException whatever has failed in it.       *)
AuthGuard ==
    /\ pc = "authGuard"
    /\ \/ route \notin SkipAuth /\ Throw(Http("Unauthorized", 401, Worded))
       \/ Proceed(IF route \in UseAbility THEN "accessGuard" ELSE "pipes")

(* AccessGuard: false is a ForbiddenException, a hook's error goes through. *)
AccessGuard ==
    /\ pc = "accessGuard"
    /\ \/ Throw(Http("Forbidden", 403, Worded))
       \/ route = "updateUser" /\ \E e \in PrismaErrors \cup {PlainError} : Throw(e)
       \/ Proceed("pipes")

(* ValidationPipe on a DTO; WherePipe and OrderByPipe on a query.          *)
Pipes ==
    /\ pc = "pipes"
    /\ \/ route \in Validated /\ Throw(Invalid)
       \/ route \in Filtered /\ \E code \in {400012, 400013} :
                                   Throw(Http("BadRequest", 400, Coded(code)))
       \/ Proceed("handler")

Handler ==
    /\ pc = "handler"
    /\ \/ \E e \in Thrown(route) : Throw(e)
       \/ /\ value' \in Returned(route)
          /\ pc' = "interceptors"
          /\ UNCHANGED <<route, exception, filter, response>>

Interceptors ==
    /\ pc = "interceptors"
    /\ response' = Transform(route, Intercepted(route, value))
    /\ pc' = "done"
    /\ UNCHANGED <<route, value, exception, filter>>

Filter ==
    /\ pc = "filter"
    /\ filter' = FilterFor(exception.class)
    /\ response' = Answer(FilterFor(exception.class), exception)
    /\ pc' = "done"
    /\ UNCHANGED <<route, value, exception>>

Next ==
    \/ ParseBody \/ AuthGuard \/ AccessGuard \/ Pipes
    \/ Handler \/ Interceptors \/ Filter

Spec == Init /\ [][Next]_vars

-----------------------------------------------------------------------------
Specific(f) == {class \in Classes : Catches(f, class)}

(* The filter that answers is the most specific of those registered for    *)
(* the exception: where one class extends another, the order of            *)
(* useGlobalFilters does not let the wider filter shadow the narrower.     *)
MostSpecificFilterAnswers ==
    filter # Null =>
        ~\E f \in Filters : /\ Catches(f, exception.class)
                            /\ Specific(f) \subseteq Specific(filter)
                            /\ Specific(f) # Specific(filter)

(* A client reads success, and it tells 2xx from errors, whatever was      *)
(* thrown and wherever: only Prisma codes without a status of their own    *)
(* are answered in the framework's form.                                   *)
AnswersAreEnvelopes ==
    response # Null =>
        \/ response.body = "data" /\ response.status < 300
        \/ response.body = "error" /\ response.status >= 400
        \/ exception # Null /\ exception.code \in PrismaCodes \ Mapped

(* error.code begins with the status of the response, except where the     *)
(* exception is Prisma's (400023 for every status), has no message (the    *)
(* code of 500) or quotes a colon of a malformed body (NaN).               *)
CodesBeginWithStatus ==
    response # Null /\ response.body = "error" =>
        \/ response.code # NaN /\ response.code \div 1000 = response.status
        \/ exception.class \in {"Prisma", "Unavailable"}
        \/ exception.class = "BadRequest" /\ exception.message = Garbled(2)

Public(v) == [v EXCEPT !.content = IF v.content = "row" THEN "public" ELSE v.content]

(* What the handler has returned reaches the client, page by page and      *)
(* value by value, with exactly the private fields of users taken out.     *)
RowsAreStripped ==
    response # Null /\ response.body = "data" => response.data = Public(value)

(* "401001: Invalid credentials": the code an exception is thrown with is  *)
(* the code the client gets.                                               *)
ThrownCodeIsAnswered ==
    response # Null /\ exception # Null /\ exception.message.lead \in Nat =>
        response.code = exception.message.lead
=============================================================================
