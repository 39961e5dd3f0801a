------------------------------ MODULE Startup ------------------------------
(***************************************************************************)
(* The application from NestFactory.create to app.listen (main.ts), with   *)
(* the modules of src/providers and modules/casl registered in any of the  *)
(* ways their options allow.  The injector makes each provider once those  *)
(* it injects are made, in no other order; app.listen runs the hooks of    *)
(* the modules one after the other, and the consumers that the hook of     *)
(* SqsService starts do not wait for the rest.                             *)
(*                                                                         *)
(* What the author's own factories return is not looked into; they, and    *)
(* the libraries, may reject.  An error on the way ends the process.       *)
(***************************************************************************)
EXTENDS Providers, Sequences

VARIABLES
    registration,
    phase,          \* "create", "init", "listening", "closed" or "failed"
    instance,       \* of each token: "pending", or what it holds
    rootOptions,    \* the metadata of CaslConfig
    installed,      \* the middlewares of the Prisma client, by $use
    initialized,    \* services whose onModuleInit has resolved
    polling,        \* SqsService has started its consumers
    connected,      \* the Prisma client has a pool
    rejected        \* history: something outside this code has rejected

boot == <<registration, phase, instance, rootOptions, installed, initialized,
          polling, connected, rejected>>

Phases  == {"create", "init", "listening", "closed", "failed"}
Holds   == {"pending", "given", "nothing", "default"}

(* app.module.ts: what the application's own options install.              *)
Middlewares == <<"loggingMiddleware", "createUserMiddleware">>

(* The services with a hook.                                               *)
Hooked == {"PrismaService", "SqsService"} \cap Provided(registration)

BootTypeOK ==
    /\ registration \in Registrations
    /\ phase \in Phases
    /\ instance \in [Tokens -> Holds]
    /\ rootOptions \in {"default", "given"}
    /\ installed \in {<<>>, Middlewares}
    /\ initialized \subseteq {"PrismaService", "SqsService"}
    /\ {polling, connected, rejected} \subseteq BOOLEAN

(* CaslModule.forRoot is called, and sets its metadata, when app.module.ts *)
(* is loaded.                                                              *)
BootInit ==
    /\ registration \in Registrations
    /\ phase = "create"
    /\ instance = [t \in Tokens |-> "pending"]
    /\ rootOptions = IF registration.casl = "forRoot" THEN "given" ELSE "default"
    /\ installed = <<>>
    /\ initialized = {}
    /\ polling = FALSE /\ connected = FALSE /\ rejected = FALSE

-----------------------------------------------------------------------------
(* NestFactory.create                                                      *)

(* Mutant: an optional dependency is waited for though no one provides it. *)
ReadyAwaitingOptional(p) ==
    /\ phase = "create"
    /\ instance[p.token] = "pending"
    /\ p.inject \subseteq Provided(registration) \cup Optional(p)
    /\ \A t \in p.inject : t \in Provided(registration) /\ instance[t] # "pending"

Ready(p) ==
    /\ phase = "create"
    /\ instance[p.token] = "pending"
    /\ p.inject \subseteq Provided(registration) \cup Optional(p)
    /\ \A t \in p.inject \cap Provided(registration) : instance[t] # "pending"

Made(p) ==
    IF p.makes \notin Tokens THEN p.makes
    ELSE IF p.makes \in Provided(registration) THEN instance[p.makes]
    ELSE "default"

(* Mutant: the middlewares are left to the hook.                           *)
ResolveInstallingLater(p) ==
    /\ Ready(p)
    /\ p.token = "S3Service" => registration.s3Config
    /\ instance' = [instance EXCEPT ![p.token] = Made(p)]
    /\ rootOptions' = IF p.token = "CASL_ROOT_OPTIONS" THEN "given" ELSE rootOptions
    /\ UNCHANGED <<registration, phase, installed, initialized, polling, connected,
                   rejected>>

(* PrismaService installs its middlewares in its constructor; the factory  *)
(* of CASL_ROOT_OPTIONS sets the metadata with what it has awaited.        *)
Resolve(p) ==
    /\ Ready(p)
    /\ p.token = "S3Service" => registration.s3Config
    /\ instance' = [instance EXCEPT ![p.token] = Made(p)]
    /\ rootOptions' = IF p.token = "CASL_ROOT_OPTIONS" THEN "given" ELSE rootOptions
    /\ installed' = IF p.token = "PrismaService" /\ Made(p) = "given"
                    THEN Middlewares ELSE installed
    /\ UNCHANGED <<registration, phase, initialized, polling, connected, rejected>>

(* The process ends.                                                       *)
Fail ==
    /\ phase' = "failed"
    /\ polling' = FALSE /\ connected' = FALSE
    /\ UNCHANGED <<registration, instance, rootOptions, installed, initialized>>

(* UnknownDependenciesException or UndefinedDependencyException            *)
CannotResolve ==
    /\ phase = "create"
    /\ \E p \in ProvidersOf(registration) : Missing(registration, p) # {}
    /\ Fail /\ UNCHANGED rejected

(* S3Service throws without its configuration.                             *)
S3Throws ==
    /\ \E p \in ProvidersOf(registration) : p.token = "S3Service" /\ Ready(p)
    /\ ~registration.s3Config
    /\ Fail /\ UNCHANGED rejected

-----------------------------------------------------------------------------
(* The rest of bootstrap sets up pipes, interceptors and filters, and      *)
(* awaits nothing until app.listen.                                        *)

Created == phase = "create" /\ \A t \in Provided(registration) : instance[t] # "pending"

Configure ==
    /\ Created
    /\ phase' = "init"
    /\ UNCHANGED <<registration, instance, rootOptions, installed, initialized,
                   polling, connected, rejected>>

ExplicitConnect == registration.explicitConnect /\ instance["PrismaService"] = "given"

ToInit(service) == phase = "init" /\ service \in Hooked \ initialized

(* Mutant: $connect is called, and not awaited.                            *)
PrismaOnModuleInitUnawaited ==
    /\ ToInit("PrismaService")
    /\ initialized' = initialized \cup {"PrismaService"}
    /\ UNCHANGED <<registration, phase, instance, rootOptions, installed, polling,
                   connected, rejected>>

(* Mutant: the hook installs the middlewares once more.                    *)
PrismaOnModuleInitInstalling ==
    /\ ToInit("PrismaService")
    /\ initialized' = initialized \cup {"PrismaService"}
    /\ installed' = installed \o Middlewares
    /\ connected' = (connected \/ ExplicitConnect)
    /\ UNCHANGED <<registration, phase, instance, rootOptions, polling, rejected>>

(* Mutant: without explicitConnect the hook's promise is never resolved.   *)
PrismaOnModuleInitPending ==
    /\ ToInit("PrismaService") /\ ExplicitConnect
    /\ initialized' = initialized \cup {"PrismaService"}
    /\ connected' = TRUE
    /\ UNCHANGED <<registration, phase, instance, rootOptions, installed, polling,
                   rejected>>

PrismaOnModuleInit ==
    /\ ToInit("PrismaService")
    /\ initialized' = initialized \cup {"PrismaService"}
    /\ connected' = (connected \/ ExplicitConnect)
    /\ UNCHANGED <<registration, phase, instance, rootOptions, installed, polling,
                   rejected>>

(* Mutant: a second consumer or producer of a name replaces the first.     *)
SqsOnModuleInitReplacing ==
    /\ ToInit("SqsService") /\ instance["SqsService"] = "given"
    /\ initialized' = initialized \cup {"SqsService"}
    /\ polling' = TRUE
    /\ UNCHANGED <<registration, phase, instance, rootOptions, installed, connected,
                   rejected>>

(* The hook makes consumers and producers, then starts the consumers.      *)
SqsOnModuleInit ==
    /\ ToInit("SqsService") /\ instance["SqsService"] = "given"
    /\ ~registration.sqsRepeats
    /\ initialized' = initialized \cup {"SqsService"}
    /\ polling' = TRUE
    /\ UNCHANGED <<registration, phase, instance, rootOptions, installed, connected,
                   rejected>>

(* TypeError, this.options is undefined, or Consumer/Producer already      *)
(* exists.                                                                 *)
SqsInitThrows ==
    /\ ToInit("SqsService")
    /\ instance["SqsService"] # "given" \/ registration.sqsRepeats
    /\ Fail /\ UNCHANGED rejected

Listen ==
    /\ phase = "init" /\ Hooked \subseteq initialized
    /\ phase' = "listening"
    /\ UNCHANGED <<registration, instance, rootOptions, installed, initialized,
                   polling, connected, rejected>>

(* The author's code or a library refuses: a factory, a class or a client  *)
(* that a provider calls, a consumer or producer of the options given, the *)
(* database when it must be there, the port.                               *)
Reject ==
    /\ \/ \E p \in ProvidersOf(registration) : p.calls /\ Ready(p)
       \/ ToInit("PrismaService") /\ ExplicitConnect
       \/ ToInit("SqsService") /\ instance["SqsService"] = "given"
       \/ phase = "init" /\ Hooked \subseteq initialized
    /\ rejected' = TRUE
    /\ Fail

-----------------------------------------------------------------------------
(* The handler of a message or of a request queries the database, perhaps  *)
(* one that was at work, or whose poll was under way, when the application *)
(* was closed; the first query of all connects the client.                 *)
Query ==
    /\ polling \/ phase \in {"listening", "closed"}
    /\ connected' = TRUE
    /\ UNCHANGED <<registration, phase, instance, rootOptions, installed, initialized,
                   polling, rejected>>

(* app.close, as the tests call it.  Nothing disconnects the client.       *)
Close ==
    /\ phase = "listening"
    /\ phase' = "closed"
    /\ polling' = FALSE
    /\ UNCHANGED <<registration, instance, rootOptions, installed, initialized,
                   connected, rejected>>

Bootstrap ==
    \/ \E p \in ProvidersOf(registration) : Resolve(p)
    \/ CannotResolve \/ S3Throws \/ Configure
    \/ PrismaOnModuleInit \/ SqsOnModuleInit \/ SqsInitThrows
    \/ Listen \/ Reject

BootNext == Bootstrap \/ Query \/ Close

BootSpec == BootInit /\ [][BootNext]_boot

-----------------------------------------------------------------------------
Started == phase \in {"listening", "closed"}

(* Whatever the order in which the injector got to them, every service     *)
(* that takes requests or messages holds the options it was registered     *)
(* with, and the guards find the root options of forRoot or forRootAsync.  *)
ServicesHoldGivenOptions ==
    Started =>
        /\ registration.sqs # "absent" => instance["SqsService"] = "given"
        /\ registration.prisma # "plain" => instance["PrismaService"] = "given"
        /\ registration.client # "absent" => instance["CustomPrismaService"] = "given"
        /\ registration.feature => instance["AbilityFactory"] = "given"
        /\ registration.casl # "absent" => rootOptions = "given"

(* Consumers take messages while other modules still wait for their hooks: *)
(* no query of their handlers passes by the middleware that hashes.        *)
MiddlewaresBeforeQueries ==
    (polling \/ connected \/ Started) /\ registration.prisma # "plain" =>
        installed = Middlewares

(* "your first query will respond instantly": with explicitConnect the     *)
(* pool is there before the first request.                                 *)
RequestsFindPool ==
    Started /\ registration.prisma # "plain" /\ registration.explicitConnect => connected

(* An application listens only if it is registered in a way that works,    *)
(* and it fails only if it is not, or if something outside has rejected.   *)
FailsForAReason ==
    /\ Started => Bootable(registration)
    /\ phase = "failed" => rejected \/ ~Bootable(registration)

(* No providers wait for one another in a circle, and none for an optional *)
(* one that no one provides: while the application is created there is a   *)
(* provider to make, one that lacks what it injects, or nothing left.      *)
InjectorCanContinue ==
    phase = "create" =>
        \/ \E p \in ProvidersOf(registration) : Ready(p) \/ Missing(registration, p) # {}
        \/ Created

(* No way of registering leaves the injector or a hook waiting for ever.   *)
StartupEnds == <>(phase \in {"listening", "failed"})
=============================================================================
