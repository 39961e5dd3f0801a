------------------------ MODULE HttpPipeline_proofs ------------------------
(***************************************************************************)
(* What a client gets to see, proved for every set of Prisma codes.  The   *)
(* inductive invariant says where a request stands: what can have been     *)
(* thrown so far, and that a response is the answer of the filter to the   *)
(* exception or the transformed value of the handler.                      *)
(***************************************************************************)
EXTENDS HttpPipeline, TLAPS

(* Everything some stage throws.                                           *)
Raised ==
    {Http("Unauthorized", 401, Worded), Http("Unauthorized", 401, Coded(401001)),
     Http("Forbidden", 403, Worded),
     Http("NotFound", 404, Worded), Http("NotFound", 404, Garbled(2)),
     Http("NotFound", 404, Coded(404000)),
     Http("BadRequest", 400, Worded), Http("BadRequest", 400, Garbled(2)),
     Http("BadRequest", 400, Garbled(3)),
     Http("BadRequest", 400, Coded(400012)), Http("BadRequest", 400, Coded(400013)),
     Http("Validation", 400, Worded), Http("Conflict", 409, Coded(409001)),
     Http("Unavailable", 503, Silent), PlainError}
    \cup PrismaErrors

Stands ==
    /\ route \in Routes
    /\ pc \in Stages
    /\ exception # Null => exception \in Raised
    /\ value # Null => value \in Returned(route) /\ route # "unknown"
    /\ pc \notin {"filter", "done"} => exception = Null
    /\ pc # "done" => filter = Null /\ response = Null
    /\ pc = "filter" => exception # Null
    /\ pc = "interceptors" => value # Null
    /\ pc \notin {"parser", "filter", "done"} => route # "unknown"
    /\ filter # Null => exception # Null /\ filter = FilterFor(exception.class)
    /\ response # Null =>
          \/ /\ exception # Null
             /\ response = Answer(FilterFor(exception.class), exception)
          \/ /\ exception = Null /\ value # Null
             /\ response = Transform(route, Intercepted(route, value))

-----------------------------------------------------------------------------
(* The filter of every class, as the reverse order of registration and the *)
(* class hierarchy make it.                                                *)
LEMMA FilterTable ==
    ASSUME NEW class \in Classes
    PROVE  FilterFor(class) =
             CASE class \in {"Unauthorized", "Forbidden"} -> "AccessExceptionFilter"
               [] class = "NotFound"   -> "NotFoundExceptionFilter"
               [] class = "BadRequest" -> "BadRequestExceptionFilter"
               [] class = "Validation" -> "ValidationExceptionFilter"
               [] class = "Throttler"  -> "ThrottlerExceptionsFilter"
               [] class = "Prisma"     -> "PrismaClientExceptionFilter"
               [] class \in {"Conflict", "Unavailable", "Error"} -> "AllExceptionsFilter"
<1>1. \A i : i \in DOMAIN GlobalFilters <=> i \in 1..7
  BY DEF GlobalFilters
<1>2. /\ GlobalFilters[1] = "AllExceptionsFilter"
      /\ GlobalFilters[2] = "AccessExceptionFilter"
      /\ GlobalFilters[3] = "NotFoundExceptionFilter"
      /\ GlobalFilters[4] = "BadRequestExceptionFilter"
      /\ GlobalFilters[5] = "PrismaClientExceptionFilter"
      /\ GlobalFilters[6] = "ValidationExceptionFilter"
      /\ GlobalFilters[7] = "ThrottlerExceptionsFilter"
  BY DEF GlobalFilters
<1>3. /\ Catches("AllExceptionsFilter", class)
      /\ Catches("AccessExceptionFilter", class) <=> class \in {"Unauthorized", "Forbidden"}
      /\ Catches("NotFoundExceptionFilter", class) <=> class = "NotFound"
      /\ Catches("BadRequestExceptionFilter", class) <=> class \in {"BadRequest", "Validation"}
      /\ Catches("PrismaClientExceptionFilter", class) <=> class = "Prisma"
      /\ Catches("ValidationExceptionFilter", class) <=> class = "Validation"
      /\ Catches("ThrottlerExceptionsFilter", class) <=> class = "Throttler"
  BY DEF Catches, Catch, Kinds, Classes
<1> DEFINE top == CASE class \in {"Unauthorized", "Forbidden"} -> 2
                    [] class = "NotFound"   -> 3
                    [] class = "BadRequest" -> 4
                    [] class = "Prisma"     -> 5
                    [] class = "Validation" -> 6
                    [] class = "Throttler"  -> 7
                    [] class \in {"Conflict", "Unavailable", "Error"} -> 1
<1>4. \A i : i \in Trying(class) <=> i \in 1..7 /\ Catches(GlobalFilters[i], class)
  BY <1>1 DEF Trying
<1>5. top \in Trying(class) /\ top \in 1..7
  BY <1>2, <1>3, <1>4 DEF Classes
<1>6. \A j \in Trying(class) : j =< top
  <2> SUFFICES ASSUME NEW j \in Trying(class) PROVE j =< top
    OBVIOUS
  <2>1. j \in 1..7 /\ Catches(GlobalFilters[j], class)
    BY <1>4
  <2>2. j = 1 \/ j = 2 \/ j = 3 \/ j = 4 \/ j = 5 \/ j = 6 \/ j = 7
    BY <2>1
  <2>3. QED
    BY <1>2, <1>3, <2>1, <2>2 DEF Classes
<1>7. \A i \in Trying(class) : i \in Nat
  BY <1>4
<1>8. (CHOOSE i \in Trying(class) : \A j \in Trying(class) : j =< i) = top
  <2> DEFINE chosen == CHOOSE i \in Trying(class) : \A j \in Trying(class) : j =< i
  <2>1. chosen \in Trying(class) /\ \A j \in Trying(class) : j =< chosen
    BY <1>5, <1>6
  <2> HIDE DEF chosen, top
  <2>2. chosen =< top /\ top =< chosen
    BY <1>5, <1>6, <2>1
  <2>3. chosen = top
    BY <1>5, <1>7, <2>1, <2>2
  <2> QED
    BY <2>3 DEF chosen, top
<1>9. FilterFor(class) = GlobalFilters[top]
  BY <1>5, <1>8 DEF FilterFor
<1>10. QED
  BY <1>2, <1>9 DEF Classes

(* What comes of everything that can be raised.                            *)
LEMMA Answers ==
    ASSUME NEW e \in Raised
    PROVE  /\ e.class \in Classes
           /\ e.class = "Prisma" <=> e \in PrismaErrors
           /\ Answer(FilterFor(e.class), e) =
                CASE e.class = "Unauthorized" -> Failure(401, 401000)
                  [] e.class = "Forbidden"    -> Failure(403, 403000)
                  [] e.class = "NotFound"     -> Failure(404, 404000)
                  [] e.class = "BadRequest"   -> BadRequestExceptionFilter(e)
                  [] e.class = "Validation"   -> Failure(422, 422000)
                  [] e.class = "Conflict"     -> Failure(409, 409001)
                  [] e.class = "Unavailable"  -> Failure(503, 500000)
                  [] e.class = "Error"        -> Failure(500, 500000)
                  [] e.class = "Prisma"       -> PrismaClientExceptionFilter(e)
<1>1. e.class \in Classes /\ e.class # "Throttler"
  BY DEF Raised, PrismaErrors, PlainError, Http, Classes
<1>2. e.class = "Prisma" <=> e \in PrismaErrors
  BY DEF Raised, PrismaErrors, PlainError, Http
<1>3. CASE e.class \in {"Unauthorized", "Forbidden"}
  <2>1. FilterFor(e.class) = "AccessExceptionFilter"
    BY <1>1, <1>3, FilterTable
  <2>2. e.status = IF e.class = "Unauthorized" THEN 401 ELSE 403
    BY <1>3 DEF Raised, PrismaErrors, PlainError, Http
  <2>3. QED
    BY <1>1, <1>2, <1>3, <2>1, <2>2 DEF Answer, AccessExceptionFilter, StatusOr
<1>4. CASE e.class = "NotFound"
  <2>1. FilterFor(e.class) = "NotFoundExceptionFilter"
    BY <1>1, <1>4, FilterTable
  <2>2. e.status = 404
    BY <1>4 DEF Raised, PrismaErrors, PlainError, Http
  <2>3. QED
    BY <1>1, <1>2, <1>4, <2>1, <2>2 DEF Answer, NotFoundExceptionFilter, StatusOr
<1>5. CASE e.class = "BadRequest"
  <2>1. FilterFor(e.class) = "BadRequestExceptionFilter"
    BY <1>1, <1>5, FilterTable
  <2>2. QED
    BY <1>1, <1>2, <1>5, <2>1 DEF Answer
<1>6. CASE e.class = "Validation"
  <2>1. FilterFor(e.class) = "ValidationExceptionFilter"
    BY <1>1, <1>6, FilterTable
  <2>2. QED
    BY <1>1, <1>2, <1>6, <2>1 DEF Answer, ValidationExceptionFilter
<1>7. CASE e.class \in {"Conflict", "Unavailable", "Error"}
  <2>1. FilterFor(e.class) = "AllExceptionsFilter"
    BY <1>1, <1>7, FilterTable
  <2>2. /\ e.class = "Conflict" => e = Http("Conflict", 409, Coded(409001))
        /\ e.class = "Unavailable" => e = Http("Unavailable", 503, Silent)
        /\ e.class = "Error" => e = PlainError
    BY <1>7 DEF Raised, PrismaErrors, PlainError, Http
  <2>3. AllExceptionsFilter(e) =
          CASE e.class = "Conflict"    -> Failure(409, 409001)
            [] e.class = "Unavailable" -> Failure(503, 500000)
            [] e.class = "Error"       -> Failure(500, 500000)
    BY <1>7, <2>2 DEF AllExceptionsFilter, StatusOr, PlainError, Http, Coded, Silent
  <2>4. QED
    BY <1>1, <1>2, <1>7, <2>1, <2>3 DEF Answer
<1>8. CASE e.class = "Prisma"
  <2>1. FilterFor(e.class) = "PrismaClientExceptionFilter"
    BY <1>1, <1>8, FilterTable
  <2>2. QED
    BY <1>1, <1>2, <1>8, <2>1 DEF Answer
<1>9. QED
  BY <1>1, <1>3, <1>4, <1>5, <1>6, <1>7, <1>8 DEF Classes

-----------------------------------------------------------------------------
LEMMA InitStands == Init => Stands
BY DEF Init, Stands, Stages

(* A stage throws something that can be raised, and nothing was before.    *)
LEMMA ThrowStands ==
    ASSUME Stands, pc \notin {"filter", "done"}, NEW e \in Raised, Throw(e)
    PROVE  Stands'
<1>1. e # Null
  BY NullAssumption DEF Raised, Exceptions, PrismaErrors, PlainError, Http, Classes,
     Statuses, Messages, Worded, Silent, Coded, Garbled
<1>2. QED
  BY <1>1 DEF Stands, Throw, Stages

LEMMA ProceedStands ==
    ASSUME Stands, pc \notin {"filter", "done"}, route # "unknown",
           NEW stage \in {"authGuard", "accessGuard", "pipes", "handler"}, Proceed(stage)
    PROVE  Stands'
BY DEF Stands, Proceed, Stages

LEMMA ReturnedTypes ==
    ASSUME NEW r \in Routes, r # "unknown", NEW v \in Returned(r)
    PROVE  v \in Values
<1>1. \/ v = One("row") \/ v = One("tokens") \/ v = One("nothing")
      \/ v = One("report") \/ v = Page("row")
  BY DEF Returned, Routes
<1>2. \A c \in Contents : One(c) \in Values /\ Page(c) \in Values
  BY DEF One, Page, Values
<1>3. QED
  BY <1>1, <1>2 DEF Contents

LEMMA StepStands == Stands /\ [Next]_vars => Stands'
<1> SUFFICES ASSUME Stands, [Next]_vars PROVE Stands'
  OBVIOUS
<1>1. CASE ParseBody
  <2>1. CASE \E message \in {Worded, Garbled(2), Garbled(3)} :
                Throw(Http("BadRequest", 400, message))
    BY <1>1, <2>1, ThrowStands DEF ParseBody, Raised
  <2>2. CASE \E message \in {Worded, Garbled(2)} : Throw(Http("NotFound", 404, message))
    BY <1>1, <2>2, ThrowStands DEF ParseBody, Raised
  <2>3. CASE route # "unknown" /\ Proceed("authGuard")
    BY <1>1, <2>3, ProceedStands DEF ParseBody
  <2>4. QED
    BY <1>1, <2>1, <2>2, <2>3 DEF ParseBody
<1>2. CASE AuthGuard
  <2>1. route # "unknown" /\ pc \notin {"filter", "done"}
    BY <1>2 DEF AuthGuard, Stands
  <2>2. CASE Throw(Http("Unauthorized", 401, Worded))
    BY <2>1, <2>2, ThrowStands DEF Raised
  <2>3. CASE Proceed(IF route \in UseAbility THEN "accessGuard" ELSE "pipes")
    BY <2>1, <2>3, ProceedStands
  <2>4. QED
    BY <1>2, <2>2, <2>3 DEF AuthGuard
<1>3. CASE AccessGuard
  <2>1. route # "unknown" /\ pc \notin {"filter", "done"}
    BY <1>3 DEF AccessGuard, Stands
  <2>2. CASE Throw(Http("Forbidden", 403, Worded))
    BY <2>1, <2>2, ThrowStands DEF Raised
  <2>3. CASE \E e \in PrismaErrors \cup {PlainError} : Throw(e)
    BY <2>1, <2>3, ThrowStands DEF Raised
  <2>4. CASE Proceed("pipes")
    BY <2>1, <2>4, ProceedStands
  <2>5. QED
    BY <1>3, <2>2, <2>3, <2>4 DEF AccessGuard
<1>4. CASE Pipes
  <2>1. route # "unknown" /\ pc \notin {"filter", "done"}
    BY <1>4 DEF Pipes, Stands
  <2>2. CASE Throw(Invalid)
    BY <2>1, <2>2, ThrowStands DEF Raised, Invalid
  <2>3. CASE \E code \in {400012, 400013} : Throw(Http("BadRequest", 400, Coded(code)))
    BY <2>1, <2>3, ThrowStands DEF Raised
  <2>4. CASE Proceed("handler")
    BY <2>1, <2>4, ProceedStands
  <2>5. QED
    BY <1>4, <2>2, <2>3, <2>4 DEF Pipes
<1>5. CASE Handler
  <2>1. route # "unknown" /\ pc \notin {"filter", "done"} /\ route \in Routes
    BY <1>5 DEF Handler, Stands
  <2>2. CASE \E e \in Thrown(route) : Throw(e)
    <3>1. Thrown(route) \subseteq Raised
      BY <2>1 DEF Thrown, Raised, Routes
    <3>2. QED
      BY <2>1, <2>2, <3>1, ThrowStands
  <2>3. CASE /\ value' \in Returned(route)
             /\ pc' = "interceptors"
             /\ UNCHANGED <<route, exception, filter, response>>
    <3>1. \A v \in Returned(route) : v # Null
      BY <2>1, ReturnedTypes, NullAssumption
    <3>2. QED
      BY <1>5, <2>1, <2>3, <3>1 DEF Handler, Stands, Stages
  <2>4. QED
    BY <1>5, <2>2, <2>3 DEF Handler
<1>6. CASE Interceptors
  BY <1>6 DEF Interceptors, Stands, Stages
<1>7. CASE Filter
  BY <1>7 DEF Filter, Stands, Stages
<1>8. CASE UNCHANGED vars
  BY <1>8 DEF Stands, vars
<1>9. QED
  BY <1>1, <1>2, <1>3, <1>4, <1>5, <1>6, <1>7, <1>8 DEF Next

LEMMA AlwaysStands == Spec => []Stands
BY InitStands, StepStands, PTL DEF Spec

-----------------------------------------------------------------------------
(* The handler's value as the client gets it.                              *)
LEMMA Stripped ==
    ASSUME NEW r \in Routes, r # "unknown", NEW v \in Returned(r)
    PROVE  Intercepted(r, v) = Public(v)
<1>1. v \in Values
  BY ReturnedTypes
<1>2. v.content = "row" <=> r \in Serialized /\ v.content # "nothing"
  BY DEF Returned, One, Page, Routes, Serialized
<1>3. CASE r \in Serialized /\ v.content = "row"
  BY <1>1, <1>3 DEF Intercepted, Serialize, ClassSerialize, Values, Public
<1>4. CASE v.content # "row"
  BY <1>1, <1>2, <1>4 DEF Intercepted, Serialize, ClassSerialize, Values, Public
<1>5. QED
  BY <1>2, <1>3, <1>4

(* The wider filter never shadows the narrower: the order in which main.ts *)
(* registers the filters agrees with the class hierarchy.                  *)
THEOREM MostSpecific == Spec => []MostSpecificFilterAnswers
<1>1. ASSUME Stands, filter # Null, NEW f \in Filters,
             Catches(f, exception.class), Specific(f) \subseteq Specific(filter)
      PROVE  Specific(f) = Specific(filter)
  <2> DEFINE class == exception.class
  <2>1. class \in Classes /\ filter = FilterFor(class)
    BY <1>1, Answers DEF Stands
  <2>2. Catches(f, class) /\ f \in Filters
    BY <1>1
  <2>3. CASE f = filter
    BY <2>3
  <2>4. CASE f = "AllExceptionsFilter"
    <3>1. Specific(f) = Classes
      BY <2>4 DEF Specific, Catches, Catch, Kinds, Classes
    <3>2. QED
      BY <1>1, <3>1 DEF Specific
  <2>5. CASE f # filter /\ f # "AllExceptionsFilter"
    <3>1. class = "Validation" /\ f = "BadRequestExceptionFilter"
          /\ filter = "ValidationExceptionFilter"
      BY <2>1, <2>2, <2>5, FilterTable
         DEF Catches, Catch, Kinds, Filters, Classes
    <3>2. "BadRequest" \in Specific(f) /\ "BadRequest" \notin Specific(filter)
      BY <3>1 DEF Specific, Catches, Catch, Kinds, Classes
    <3>3. QED
      BY <1>1, <3>2
  <2>6. QED
    BY <2>3, <2>4, <2>5
<1>2. Stands => MostSpecificFilterAnswers
  BY <1>1 DEF MostSpecificFilterAnswers
<1>3. QED
  BY <1>2, AlwaysStands, PTL

(* success is true for 2xx and false for errors, and present unless Prisma *)
(* gives a code that the mapping of its filter does not know.              *)
THEOREM Envelopes == Spec => []AnswersAreEnvelopes
<1>1. ASSUME Stands, response # Null, exception = Null
      PROVE  response.body = "data" /\ response.status < 300
  BY <1>1 DEF Stands, Transform, Success, HttpCode, Routes
<1>2. ASSUME Stands, response # Null, exception # Null
      PROVE  \/ response.body = "error" /\ response.status >= 400
             \/ exception.code \in PrismaCodes \ Mapped
  <2>1. exception \in Raised /\ response = Answer(FilterFor(exception.class), exception)
    BY <1>2 DEF Stands
  <2>2. CASE exception.class = "Prisma"
    <3>1. exception.code \in PrismaCodes
      BY <2>1, <2>2, Answers DEF PrismaErrors
    <3>2. response = PrismaClientExceptionFilter(exception)
      BY <2>1, <2>2, Answers
    <3>3. CASE exception.code \in Mapped
      BY <3>2, <3>3 DEF PrismaClientExceptionFilter, ErrorCodesStatusMapping, Failure, Mapped
    <3>4. QED
      BY <3>1, <3>3
  <2>3. CASE exception.class = "BadRequest"
    <3>1. exception.status = 400
      BY <2>1, <2>3 DEF Raised, PrismaErrors, PlainError, Http
    <3>2. response = BadRequestExceptionFilter(exception)
      BY <2>1, <2>3, Answers
    <3>3. QED
      BY <3>1, <3>2 DEF BadRequestExceptionFilter, StatusOr, Failure
  <2>4. CASE exception.class \notin {"Prisma", "BadRequest", "Throttler"}
    BY <2>1, <2>4, Answers DEF Failure, Classes
  <2>5. exception.class # "Throttler"
    BY <2>1 DEF Raised, PrismaErrors, PlainError, Http
  <2>6. QED
    BY <2>2, <2>3, <2>4, <2>5
<1>3. Stands => AnswersAreEnvelopes
  BY <1>1, <1>2 DEF AnswersAreEnvelopes
<1>4. QED
  BY <1>3, AlwaysStands, PTL

(* Of what a handler returned the client gets everything but the private   *)
(* fields of users.                                                        *)
THEOREM PrivateFieldsStay == Spec => []RowsAreStripped
<1>1. ASSUME Stands, response # Null, exception = Null
      PROVE  response.data = Public(value)
  <2>1. /\ route \in Routes /\ route # "unknown" /\ value \in Returned(route)
        /\ response = Transform(route, Intercepted(route, value))
    BY <1>1 DEF Stands
  <2>2. Intercepted(route, value) = Public(value)
    BY <2>1, Stripped
  <2>3. QED
    BY <2>1, <2>2 DEF Transform, Success
<1>2. ASSUME Stands, response # Null, exception # Null
      PROVE  response.body # "data"
  <2>1. exception \in Raised /\ response = Answer(FilterFor(exception.class), exception)
    BY <1>2 DEF Stands
  <2>2. exception.class # "Throttler"
    BY <2>1 DEF Raised, PrismaErrors, PlainError, Http
  <2>3. CASE exception.class = "Prisma"
    <3>1. response = PrismaClientExceptionFilter(exception)
      BY <2>1, <2>3, Answers
    <3>2. QED
      BY <3>1 DEF PrismaClientExceptionFilter, BaseExceptionFilter, Failure, Bare
  <2>4. CASE exception.class = "BadRequest"
    <3>1. response = BadRequestExceptionFilter(exception)
      BY <2>1, <2>4, Answers
    <3>2. QED
      BY <3>1 DEF BadRequestExceptionFilter, Failure
  <2>5. CASE exception.class \notin {"Prisma", "BadRequest", "Throttler"}
    BY <2>1, <2>5, Answers DEF Failure, Classes
  <2>6. QED
    BY <2>2, <2>3, <2>4, <2>5
<1>3. Stands => RowsAreStripped
  BY <1>1, <1>2 DEF RowsAreStripped
<1>4. QED
  BY <1>3, AlwaysStands, PTL

(* error.code begins with the status, but for the three exceptions named   *)
(* in CodesBeginWithStatus.                                                *)
THEOREM CodesAgree == Spec => []CodesBeginWithStatus
<1>1. Stands => CodesBeginWithStatus
  <2> SUFFICES ASSUME Stands, response # Null, response.body = "error",
                      exception.class \notin {"Prisma", "Unavailable"},
                      ~(exception.class = "BadRequest" /\ exception.message = Garbled(2))
               PROVE  response.code # NaN /\ response.code \div 1000 = response.status
    BY DEF CodesBeginWithStatus
  <2>1. exception # Null
    BY DEF Stands, Transform, Success
  <2>2. exception \in Raised /\ response = Answer(FilterFor(exception.class), exception)
    BY <2>1 DEF Stands
  <2>3. exception.class # "Throttler"
    BY <2>2 DEF Raised, PrismaErrors, PlainError, Http
  <2>4. CASE exception.class = "BadRequest"
    <3>1. \/ exception = Http("BadRequest", 400, Worded)
          \/ exception = Http("BadRequest", 400, Garbled(3))
          \/ exception = Http("BadRequest", 400, Coded(400012))
          \/ exception = Http("BadRequest", 400, Coded(400013))
      BY <2>2, <2>4 DEF Raised, PrismaErrors, PlainError, Http
    <3>2. response = BadRequestExceptionFilter(exception)
      BY <2>2, <2>4, Answers
    <3>3. response.status = 400 /\ response.code \in {400000, 400012, 400013}
      BY <3>1, <3>2 DEF BadRequestExceptionFilter, StatusOr, Failure, Http,
         Worded, Garbled, Coded
    <3>4. QED
      BY <3>3, NumbersAssumption
  <2>5. CASE exception.class \notin {"Prisma", "BadRequest", "Throttler", "Unavailable"}
    <3>1. \/ response = Failure(401, 401000) \/ response = Failure(403, 403000)
          \/ response = Failure(404, 404000) \/ response = Failure(422, 422000)
          \/ response = Failure(409, 409001) \/ response = Failure(500, 500000)
      BY <2>2, <2>5, Answers DEF Classes
    <3>2. \/ response.status = 401 /\ response.code = 401000
          \/ response.status = 403 /\ response.code = 403000
          \/ response.status = 404 /\ response.code = 404000
          \/ response.status = 422 /\ response.code = 422000
          \/ response.status = 409 /\ response.code = 409001
          \/ response.status = 500 /\ response.code = 500000
      BY <3>1 DEF Failure
    <3>3. QED
      BY <3>2, NumbersAssumption
  <2>6. QED
    BY <2>3, <2>4, <2>5
<1>2. QED
  BY <1>1, AlwaysStands, PTL

(* What has a code of its own.                                             *)
LEMMA RaisedCodes ==
    ASSUME NEW e \in Raised, e.message.lead \in Nat
    PROVE  \/ e = Http("Unauthorized", 401, Coded(401001))
           \/ e = Http("NotFound", 404, Coded(404000))
           \/ e = Http("BadRequest", 400, Coded(400012))
           \/ e = Http("BadRequest", 400, Coded(400013))
           \/ e = Http("Conflict", 409, Coded(409001))
<1>1. Worded.lead \notin Nat /\ Silent.lead \notin Nat /\ \A n : Garbled(n).lead \notin Nat
  BY NumbersAssumption DEF Worded, Silent, Garbled
<1>2. \A class, status, message : Http(class, status, message).message = message
  BY DEF Http
<1>3. \A x \in PrismaErrors \cup {PlainError} : x.message = Silent
  BY DEF PrismaErrors, PlainError, Http
<1>4. QED
  BY <1>1, <1>2, <1>3 DEF Raised

(* Only a sign-in throws the code of a wrong password.                     *)
WrongPassword == Http("Unauthorized", 401, Coded(401001))

WrongAtSignIn == exception = WrongPassword => route = "signIn"

LEMMA WrongPasswordStep ==
    ASSUME Stands, WrongAtSignIn, [Next]_vars
    PROVE  WrongAtSignIn'
<1>1. \A message \in {Worded, Garbled(2), Garbled(3)}, class \in Classes, status \in Statuses :
         Http(class, status, message) # WrongPassword
  BY NumbersAssumption DEF WrongPassword, Http, Worded, Garbled, Coded
<1>2. \A class \in Classes \ {"Unauthorized"} : \A status, message :
         Http(class, status, message) # WrongPassword
  BY DEF WrongPassword, Http
<1>3. \A e \in PrismaErrors \cup {PlainError} : e # WrongPassword
  BY DEF WrongPassword, Http, PrismaErrors, PlainError
<1>4. {"Unauthorized", "Forbidden", "BadRequest", "NotFound", "Validation", "Conflict",
       "Unavailable"} \subseteq Classes
  BY DEF Classes
<1>5. 401 \in Statuses
  BY DEF Statuses
<1>6. CASE ParseBody
  BY <1>2, <1>4, <1>6 DEF ParseBody, Throw, Proceed, WrongAtSignIn, Stands
<1>7. CASE AuthGuard
  BY <1>1, <1>4, <1>5, <1>7 DEF AuthGuard, Throw, Proceed, WrongAtSignIn, Stands
<1>8. CASE AccessGuard
  BY <1>2, <1>3, <1>4, <1>8 DEF AccessGuard, Throw, Proceed, WrongAtSignIn, Stands
<1>9. CASE Pipes
  BY <1>2, <1>4, <1>9 DEF Pipes, Throw, Proceed, Invalid, WrongAtSignIn, Stands
<1>10. CASE Handler
  <2>1. ASSUME NEW e \in Thrown(route), e = WrongPassword PROVE route = "signIn"
    <3>1. /\ Http("Conflict", 409, Coded(409001)) # WrongPassword
          /\ Http("Unavailable", 503, Silent) # WrongPassword
      BY <1>2, <1>4
    <3>2. Http("Unauthorized", 401, Worded) # WrongPassword
      BY <1>1, <1>4, <1>5
    <3>3. QED
      BY <1>3, <2>1, <3>1, <3>2 DEF Thrown
  <2>2. QED
    BY <1>10, <2>1 DEF Handler, Throw, WrongAtSignIn, Stands
<1>11. CASE Interceptors \/ Filter \/ UNCHANGED vars
  BY <1>11 DEF Interceptors, Filter, vars, WrongAtSignIn
<1>12. QED
  BY <1>6, <1>7, <1>8, <1>9, <1>10, <1>11 DEF Next

(* How far the claim of ThrownCodeIsAnswered holds: the code an exception  *)
(* is thrown with reaches the client, except that of a wrong password.     *)
OnlyWrongPasswordLosesItsCode ==
    response # Null /\ exception # Null /\ exception.message.lead \in Nat =>
        IF exception = WrongPassword
        THEN route = "signIn" /\ response.status = 401 /\ response.code = 401000
        ELSE response.code = exception.message.lead

(* Of all the coded exceptions, a filter changes the code of one only: the *)
(* finding about AccessExceptionFilter has no other instance.              *)
THEOREM OtherCodesAreAnswered == Spec => []OnlyWrongPasswordLosesItsCode
<1>1. Stands /\ WrongAtSignIn => OnlyWrongPasswordLosesItsCode
  <2> SUFFICES ASSUME Stands, WrongAtSignIn, response # Null, exception # Null,
                      exception.message.lead \in Nat
               PROVE  IF exception = WrongPassword
                      THEN /\ route = "signIn"
                           /\ response.status = 401 /\ response.code = 401000
                      ELSE response.code = exception.message.lead
    BY DEF OnlyWrongPasswordLosesItsCode
  <2> DEFINE e == exception
  <2>1. e \in Raised /\ response = Answer(FilterFor(e.class), e)
    BY DEF Stands
  <2>2. CASE e = WrongPassword
    <3>1. response = Failure(401, 401000)
      BY <2>1, <2>2, Answers DEF WrongPassword, Http
    <3>2. QED
      BY <2>2, <3>1 DEF Failure, WrongAtSignIn
  <2>3. CASE e = Http("NotFound", 404, Coded(404000))
    <3>1. response = Failure(404, 404000)
      BY <2>1, <2>3, Answers DEF Http
    <3>2. QED
      BY <2>3, <3>1 DEF Failure, WrongPassword, Http, Coded
  <2>4. CASE \E code \in {400012, 400013} : e = Http("BadRequest", 400, Coded(code))
    <3>1. response = BadRequestExceptionFilter(e)
      BY <2>1, <2>4, Answers DEF Http
    <3>2. QED
      BY <2>4, <3>1 DEF BadRequestExceptionFilter, Failure, WrongPassword, Http, Coded
  <2>5. CASE e = Http("Conflict", 409, Coded(409001))
    <3>1. response = Failure(409, 409001)
      BY <2>1, <2>5, Answers DEF Http
    <3>2. QED
      BY <2>5, <3>1 DEF Failure, WrongPassword, Http, Coded
  <2>6. QED
    BY <2>1, <2>2, <2>3, <2>4, <2>5, RaisedCodes DEF WrongPassword
<1>2. Init => WrongAtSignIn
  BY NullAssumption DEF Init, WrongAtSignIn, WrongPassword, Exceptions, Http, Classes,
     Statuses, Messages, Coded
<1>3. Stands /\ WrongAtSignIn /\ [Next]_vars => WrongAtSignIn'
  BY WrongPasswordStep
<1>4. QED
  BY <1>1, <1>2, <1>3, AlwaysStands, PTL DEF Spec

-----------------------------------------------------------------------------
LEMMA RaisedTypes == Raised \subseteq Exceptions
<1>1. \A message \in Messages, status \in Statuses, class \in Classes :
         Http(class, status, message) \in Exceptions
  BY DEF Http, Exceptions
<1>2. /\ Worded \in Messages /\ Silent \in Messages
      /\ \A n \in {2, 3} : Garbled(n) \in Messages
      /\ \A n \in Nat : Coded(n) \in Messages
  BY DEF Worded, Silent, Garbled, Coded, Messages
<1>3. PrismaErrors \subseteq Exceptions
  BY <1>2 DEF PrismaErrors, Exceptions, Classes, Statuses
<1>4. QED
  BY <1>1, <1>2, <1>3 DEF Raised, PlainError, Classes, Statuses

LEMMA AnswerTypes ==
    ASSUME NEW e \in Raised
    PROVE  /\ FilterFor(e.class) \in Filters \cup {"BaseExceptionFilter"}
           /\ Answer(FilterFor(e.class), e) \in Responses
<1>1. \A s \in Statuses \ {0}, c \in Nat \cup {NaN} : Failure(s, c) \in Responses
  BY DEF Failure, Responses
<1>2. \A s \in Statuses \ {0} : Bare(s) \in Responses
  BY DEF Bare, Responses
<1>3. e.class \in Classes /\ e \in Exceptions
  BY Answers, RaisedTypes
<1>4. FilterFor(e.class) \in Filters \cup {"BaseExceptionFilter"}
  BY <1>3, FilterTable DEF Filters, Classes
<1>5. CASE e.class = "BadRequest"
  <2>1. e.status = 400
    BY <1>5 DEF Raised, PrismaErrors, PlainError, Http
  <2>2. e.message.lead \in Nat \cup {NaN}
    BY <1>3 DEF Exceptions, Messages
  <2>3. 400 \in Statuses \ {0}
    BY DEF Statuses
  <2>4. \/ BadRequestExceptionFilter(e) = Failure(400, e.message.lead)
        \/ BadRequestExceptionFilter(e) = Failure(400, 400000)
    BY <2>1, SMT DEF BadRequestExceptionFilter, StatusOr
  <2>5. Failure(400, e.message.lead) \in Responses
    BY <1>1, <2>2, <2>3, Zenon
  <2>6. Failure(400, 400000) \in Responses
    BY <1>1, <2>3, SMT
  <2>7. BadRequestExceptionFilter(e) \in Responses
    BY <2>4, <2>5, <2>6, SMT
  <2>8. QED
    BY <1>4, <1>5, <2>7, Answers
<1>6. CASE e.class = "Prisma"
  <2>1. e.status = 0
    BY <1>6 DEF Raised, PrismaErrors, PlainError, Http
  <2>2. /\ {400, 404, 409, 500} \subseteq Statuses \ {0}
        /\ 400023 \in Nat
    BY DEF Statuses
  <2>3. ASSUME e.code \in DOMAIN ErrorCodesStatusMapping
        PROVE  PrismaClientExceptionFilter(e) \in Responses
    <3>1. ErrorCodesStatusMapping[e.code] \in {400, 404, 409}
      BY <2>3 DEF ErrorCodesStatusMapping
    <3>2. PrismaClientExceptionFilter(e) =
            Failure(ErrorCodesStatusMapping[e.code], 400023)
      BY <2>3 DEF PrismaClientExceptionFilter
    <3>3. QED
      BY <1>1, <2>2, <3>1, <3>2
  <2>4. ASSUME e.code \notin DOMAIN ErrorCodesStatusMapping
        PROVE  PrismaClientExceptionFilter(e) \in Responses
    <3>1. PrismaClientExceptionFilter(e) = Bare(500)
      BY <2>1, <2>4 DEF PrismaClientExceptionFilter, BaseExceptionFilter, StatusOr
    <3>2. QED
      BY <1>2, <2>2, <3>1
  <2>5. PrismaClientExceptionFilter(e) \in Responses
    BY <2>3, <2>4
  <2>6. QED
    BY <1>4, <1>6, <2>5, Answers
<1>7. CASE e.class \notin {"BadRequest", "Prisma", "Throttler"}
  <2> DEFINE answer == Answer(FilterFor(e.class), e)
  <2>1. \/ answer = Failure(401, 401000) \/ answer = Failure(403, 403000)
        \/ answer = Failure(404, 404000) \/ answer = Failure(422, 422000)
        \/ answer = Failure(409, 409001) \/ answer = Failure(500, 500000)
        \/ answer = Failure(503, 500000)
    BY <1>3, <1>7, Answers DEF Classes
  <2>2. {401, 403, 404, 422, 409, 500, 503} \subseteq Statuses \ {0}
    BY DEF Statuses
  <2>3. answer \in Responses
    <3> HIDE DEF answer
    <3> QED  BY <1>1, <2>1, <2>2
  <2>4. QED
    BY <1>4, <2>3
<1>8. e.class # "Throttler"
  BY DEF Raised, PrismaErrors, PlainError, Http
<1>9. QED
  BY <1>5, <1>6, <1>7, <1>8

(* Every answer has a status, a form and a code (or NaN) of its type.      *)
THEOREM TypesOfPipeline == Spec => []TypeOK
<1>1. Stands => TypeOK
  <2> SUFFICES ASSUME Stands PROVE TypeOK
    OBVIOUS
  <2>1. value \in Values \cup {Null}
    BY ReturnedTypes DEF Stands
  <2>2. exception \in Exceptions \cup {Null}
    BY RaisedTypes DEF Stands
  <2>3. filter \in Filters \cup {"BaseExceptionFilter", Null}
    BY AnswerTypes DEF Stands
  <2>4. response \in Responses \cup {Null}
    <3>1. CASE exception # Null /\ response = Answer(FilterFor(exception.class), exception)
      BY <3>1, AnswerTypes DEF Stands
    <3>2. CASE value # Null /\ response = Transform(route, Intercepted(route, value))
      <4>1. Intercepted(route, value) = Public(value)
        BY <3>2, Stripped DEF Stands
      <4>2. Public(value) \in Values
        BY <3>2, <2>1 DEF Public, Values, Contents
      <4>3. HttpCode(route) \in Statuses \ {0}
        <5>1. route \in Routes \ {"unknown"}
          BY <3>2 DEF Stands
        <5>2. HttpCode(route) \in {200, 201, 204}
          BY <5>1 DEF HttpCode, Routes
        <5>3. QED
          BY <5>2 DEF Statuses
      <4>4. QED
        BY <3>2, <4>1, <4>2, <4>3 DEF Transform, Success, Responses
    <3>3. QED
      BY <3>1, <3>2 DEF Stands
  <2>5. QED
    BY <2>1, <2>2, <2>3, <2>4 DEF TypeOK, Stands
<1>2. QED
  BY <1>1, AlwaysStands, PTL
=============================================================================
