\* Two processes, two tokens.
CONSTANTS
    Procs = {p1, p2}
    MaxTokens = 3
    None = None
SPECIFICATION TokenSpec
INVARIANTS Agreement Durable
