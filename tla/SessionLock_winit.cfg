CONSTANTS
    Outputs = {o1}
    Lockers = {l1}
    None = None
    RenderResults = {"Submitted"}
SPECIFICATION Spec
PROPERTIES
    LockRenderOnSuccessfulRender
