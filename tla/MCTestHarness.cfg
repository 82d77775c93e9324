CONSTANTS
    noenv = noenv
    NoEnv = noenv
    Registrations <- RegistrationsMC
    EnvValues <- EnvValuesMC
    Outcomes = {"pass", "fail"}
SPECIFICATION Spec
INVARIANT TypeOK
