CONSTANTS
    Controller = {"c1", "c2"}
    Self = "c1"
    Node = {"c2", "vpn"}
    Proc = {"faucet"}
    MinHealthy = 2
    MinDown = 2
    None = None
SPECIFICATION Spec
INVARIANT EnoughPings
